---- MODULE Spec2Model ----
(***************************************************************************)
(* The agent-creation pipeline of agent_creator: genesis (input            *)
(* validation, interpretation, configuration, model selection), the        *)
(* SPICE quality-assurance run (challenge generation, response simulation, *)
(* response evaluation, acceptance gate), the registrar call and the       *)
(* bounded retry controller genesis_retry.                                 *)
(*                                                                         *)
(* Conventions.  Text is a sequence of tokens (words and fixed clauses);   *)
(* Python's `in` on strings is a search for a contiguous run of tokens     *)
(* after lower().  Scores and difficulties are counted in tenths (0.6 is   *)
(* 6), averages and variances are exact fractions [num, den]; the last-bit *)
(* rounding of IEEE doubles is not modelled.  Lists and dicts are objects  *)
(* on a heap (lists, dicts) and variables hold references to them, so      *)
(* aliasing and copy.deepcopy are visible.                                 *)
(***************************************************************************)
EXTENDS Integers, Sequences, FiniteSets, TLC

VARIABLES
    pc,                 \* position of the single thread of control
    instruction,        \* argument of create_agent / genesis
    lists,              \* heap of list objects (capabilities, constraints)
    dicts,              \* heap of dict objects (agent configurations)
    structured_instruction, \* genesis: result of convert_query_via_mdp
    agent_config,       \* current frame: reference to the configuration
    llm_instance,       \* genesis: result of select_llm
    frame,              \* function whose body is executing
    depth,              \* number of live genesis_retry activations
    feedback,           \* genesis_retry: parameter feedback
    retry_count,        \* genesis_retry: parameter retry_count
    adjustment_strategy,\* genesis_retry: local adjustment_strategy
    adjusted_config,    \* genesis_retry: local adjusted_config (reference)
    qa_config,          \* quality_assurance_test: parameter agent_config
    challenge_questions,\* quality_assurance_test: local
    responses,          \* quality_assurance_test: local
    scores,             \* quality_assurance_test / evaluate_responses: local
    qa_result,          \* value returned by the last quality_assurance_test
    outcome,            \* how genesis ended: returned value or raised error
    returned,           \* value create_agent handed to its caller
    gateway,            \* history: what the Gateway was asked and how it failed
    audit               \* history: adjustments, QA runs and registrations

vars == << pc, instruction, lists, dicts, structured_instruction, agent_config,
           llm_instance, frame, depth, feedback, retry_count,
           adjustment_strategy, adjusted_config, qa_config,
           challenge_questions, responses, scores, qa_result, outcome,
           returned, gateway, audit >>

-----------------------------------------------------------------------------
(* Program constants *)

MinInstructionLen == 10
MaxInstructionLen == 5000
max_retries == 3
num_questions == 5
MinAcceptableTenths == 6
VarianceLowPct == 15
VarianceHighPct == 35
DefaultDifficulty == 5
EasyBelow == 5
HardFrom == 7
TopFailures == 3
SimplifyCapabilities == 3

(* Bounds of the model *)

MaxFaults == 1
MaxOutcomes == 6
MaxSimplifications == 2
MaxAttempt == 3

-----------------------------------------------------------------------------
(* Text *)

\* sep.join(items), each item one token
RECURSIVE Join(_, _)
Join(items, sep) ==
    IF items = << >> THEN << >>
    ELSE IF Len(items) = 1 THEN << items[1] >>
    ELSE << items[1], sep >> \o Join(Tail(items), sep)

\* str.lower() of one token
LowerToken(t) ==
    CASE t = "All"      -> "all"
      [] t = "Consider" -> "consider"
      [] t = "Failed"   -> "failed"
      [] t = "FAILED"   -> "failed"
      [] t = "Focus"    -> "focus"
      [] t = "Variance" -> "variance"
      [] t = "Too"      -> "too"
      [] t = "Easy"     -> "easy"
      [] t = "Explain"  -> "explain"
      [] t = "Basic"    -> "basic"
      [] t = "Intermediate" -> "intermediate"
      [] t = "Advanced" -> "advanced"
      [] t = "Apply"    -> "apply"
      [] t = "Optimize" -> "optimize"
      [] t = "Error"    -> "error"
      [] OTHER          -> t

Lower(s) == [i \in 1..Len(s) |-> LowerToken(s[i])]

\* needle in haystack
Contains(haystack, needle) ==
    \E i \in 0..(Len(haystack) - Len(needle)) :
        \A j \in 1..Len(needle) : haystack[i + j] = needle[j]

\* s[:n]
\* mutant: the slice keeps the whole list
TakeAllMutant(s, n) == s

\* s[:n]
Take(s, n) == SubSeq(s, 1, IF n < Len(s) THEN n ELSE Len(s))

-----------------------------------------------------------------------------
(* The instruction: None, or a string given by its runs of whitespace      *)
(* ("ws") and other characters ("ch"), each run with its length.           *)

NoneInstruction == [none |-> TRUE, runs |-> << >>]
Str(runs) == [none |-> FALSE, runs |-> runs]

RECURSIVE RunsLen(_)
RunsLen(runs) ==
    IF runs = << >> THEN 0 ELSE Head(runs)[2] + RunsLen(Tail(runs))

RECURSIVE LStrip(_)
LStrip(runs) ==
    IF runs # << >> /\ Head(runs)[1] = "ws" THEN LStrip(Tail(runs)) ELSE runs

RECURSIVE RStrip(_)
RStrip(runs) ==
    IF runs # << >> /\ runs[Len(runs)][1] = "ws"
    THEN RStrip(SubSeq(runs, 1, Len(runs) - 1))
    ELSE runs

\* str.strip()
Strip(runs) == RStrip(LStrip(runs))

\* characters that are not whitespace
RECURSIVE NonWhitespace(_)
NonWhitespace(runs) ==
    IF runs = << >> THEN 0
    ELSE (IF Head(runs)[1] = "ch" THEN Head(runs)[2] ELSE 0)
         + NonWhitespace(Tail(runs))

\* `not instruction`
Falsy(instr) == instr.none \/ RunsLen(instr.runs) = 0

\* mutant: the maximum is measured after strip()
ValidateStrippedMaxMutant(instr) ==
    IF Falsy(instr) THEN "empty"
    ELSE IF RunsLen(Strip(instr.runs)) < MinInstructionLen THEN "too_short"
    ELSE IF RunsLen(Strip(instr.runs)) > MaxInstructionLen THEN "too_long"
    ELSE "ok"

\* mutant: the minimum is measured without strip()
ValidateNoStripMutant(instr) ==
    IF Falsy(instr) THEN "empty"
    ELSE IF RunsLen(instr.runs) < MinInstructionLen THEN "too_short"
    ELSE IF RunsLen(instr.runs) > MaxInstructionLen THEN "too_long"
    ELSE "ok"

\* genesis, input validation: the error raised, or "ok"
Validate(instr) ==
    IF Falsy(instr) THEN "empty"
    ELSE IF RunsLen(Strip(instr.runs)) < MinInstructionLen THEN "too_short"
    ELSE IF RunsLen(instr.runs) > MaxInstructionLen THEN "too_long"
    ELSE "ok"

-----------------------------------------------------------------------------
(* Values *)

None == [is_none |-> TRUE]
Running == [kind |-> "running"]
Raised(error, message) == [kind |-> "raise", error |-> error, message |-> message]
Returned(value) == [kind |-> "return", value |-> value]
NoText == << >>

\* the list object a reference denotes
ListOf(ref) == lists[ref]
\* the configuration dict a reference denotes
ConfigOf(ref) == dicts[ref]

\* history: a configuration object and everything reachable from it
Snapshot(ref) ==
    [ ref |-> ref, config |-> ConfigOf(ref),
      capabilities |-> ListOf(ConfigOf(ref).capabilities),
      constraints |-> ListOf(ConfigOf(ref).constraints) ]

-----------------------------------------------------------------------------
(* What the Gateway may answer.  parsed_json of the interpretation call:   *)
(* keys may be absent (the has_ flags).                                    *)

InterpretResponses ==
    { [ has_agent_type |-> TRUE, agent_type |-> "data_analyst",
        has_capabilities |-> TRUE,
        capabilities |-> << "statistics", "python", "reporting", "plotting" >>,
        has_constraints |-> TRUE, constraints |-> << "must_use_python" >>,
        success_criteria |-> "accurate summary",
        estimated_complexity |-> "medium" ],
      [ has_agent_type |-> TRUE, agent_type |-> "researcher",
        has_capabilities |-> FALSE, capabilities |-> << >>,
        has_constraints |-> TRUE, constraints |-> << "realtime" >>,
        success_criteria |-> "cited answer",
        estimated_complexity |-> "low" ],
      [ has_agent_type |-> FALSE, agent_type |-> "",
        has_capabilities |-> TRUE, capabilities |-> << "search" >>,
        has_constraints |-> FALSE, constraints |-> << >>,
        success_criteria |-> "",
        estimated_complexity |-> "low" ] }

\* parsed_json of the model-selection call
SelectionResponses ==
    { [ complete |-> TRUE, model_name |-> "gemini-1.5-flash",
        context_window |-> 1000000, temperature |-> 7 ],
      [ complete |-> FALSE, model_name |-> "gemini-1.5-pro",
        context_window |-> 0, temperature |-> 0 ] }

-----------------------------------------------------------------------------
(* genesis: entry and input validation *)

GenesisValidate ==
    /\ pc = "genesis"
    /\ IF Validate(instruction) = "ok"
       THEN /\ pc' = "interpret"
            /\ outcome' = outcome
       ELSE /\ pc' = "genesis_exit"
            /\ outcome' = Raised("ValidationError", Validate(instruction))
    /\ frame' = "genesis"
    /\ UNCHANGED << instruction, lists, dicts, structured_instruction,
                    agent_config, llm_instance, depth, feedback, retry_count,
                    adjustment_strategy, adjusted_config, qa_config,
                    challenge_questions, responses, scores, qa_result,
                    returned, gateway, audit >>

(* convert_query_via_mdp: one Gateway call; any exception, the KeyError   *)
(* of a response without agent_type included, is re-raised as ValueError  *)
(* and leaves genesis through its except clause.                          *)
Interpreted(r) ==
    [ agent_type |-> r.agent_type,
      has_capabilities |-> r.has_capabilities,
      capabilities |-> IF r.has_capabilities THEN Len(lists) + 1 ELSE 0,
      has_constraints |-> r.has_constraints,
      constraints |-> IF ~r.has_constraints THEN 0
                      ELSE IF r.has_capabilities THEN Len(lists) + 2
                      ELSE Len(lists) + 1,
      success_criteria |-> r.success_criteria,
      estimated_complexity |-> r.estimated_complexity ]

convert_query_via_mdp ==
    /\ pc = "interpret"
    /\ gateway' = [gateway EXCEPT !.called = TRUE]
    /\ \/ /\ pc' = "genesis_exit"
          /\ outcome' = Raised("ValueError", "convert")
          /\ UNCHANGED << structured_instruction, lists >>
       \/ \E r \in InterpretResponses :
            IF r.has_agent_type
            THEN /\ structured_instruction' = Interpreted(r)
                 /\ lists' = lists
                        \o (IF r.has_capabilities THEN << r.capabilities >>
                            ELSE << >>)
                        \o (IF r.has_constraints THEN << r.constraints >>
                            ELSE << >>)
                 /\ pc' = "build"
                 /\ outcome' = outcome
            ELSE /\ pc' = "genesis_exit"
                 /\ outcome' = Raised("ValueError", "convert")
                 /\ UNCHANGED << structured_instruction, lists >>
    /\ UNCHANGED << instruction, dicts, agent_config, llm_instance, frame,
                    depth, feedback, retry_count, adjustment_strategy,
                    adjusted_config, qa_config, challenge_questions,
                    responses, scores, qa_result, returned, audit >>

(* get_agent_setup_data: a new dict; capabilities and constraints are the  *)
(* structured instruction's own lists when it has them, fresh empty lists  *)
(* otherwise.                                                              *)
InitialPrompt(si, caps, cons) ==
    << "You are a ", si.agent_type, ". ", "Your capabilities include: " >>
    \o Join(caps, ", ") \o << ". ", "Constraints: " >>
    \o Join(cons, ", ") \o << "." >>

get_agent_setup_data ==
    /\ pc = "build"
    /\ LET si  == structured_instruction
           nc  == IF si.has_capabilities THEN 0 ELSE 1
           nk  == IF si.has_constraints THEN 0 ELSE 1
           capRef == IF si.has_capabilities THEN si.capabilities
                     ELSE Len(lists) + 1
           conRef == IF si.has_constraints THEN si.constraints
                     ELSE Len(lists) + nc + 1
           caps == IF si.has_capabilities THEN ListOf(si.capabilities) ELSE << >>
           cons == IF si.has_constraints THEN ListOf(si.constraints) ELSE << >>
       IN /\ lists' = lists \o [i \in 1..(nc + nk) |-> << >>]
          /\ dicts' = Append(dicts,
                [ agent_id |-> "uuid-1",
                  agent_type |-> si.agent_type,
                  capabilities |-> capRef,
                  constraints |-> conRef,
                  success_criteria |-> si.success_criteria,
                  system_prompt |-> InitialPrompt(si, caps, cons) ])
          /\ agent_config' = Len(dicts) + 1
    /\ pc' = "select"
    /\ UNCHANGED << instruction, structured_instruction, llm_instance, frame,
                    depth, feedback, retry_count, adjustment_strategy,
                    adjusted_config, qa_config, challenge_questions,
                    responses, scores, qa_result, outcome, returned, gateway,
                    audit >>

(* select_llm: the prompt is formatted before the try block and indexes    *)
(* structured_instruction['capabilities'] (KeyError when absent); inside   *)
(* the try block every exception is logged and the function falls off its  *)
(* end, returning None.                                                    *)
select_llm ==
    /\ pc = "select"
    /\ IF ~structured_instruction.has_capabilities
       THEN /\ pc' = "genesis_exit"
            /\ outcome' = Raised("KeyError", "capabilities")
            /\ UNCHANGED << llm_instance, gateway >>
       ELSE /\ gateway' = [gateway EXCEPT !.called = TRUE]
            /\ pc' = "attach"
            /\ outcome' = outcome
            /\ \/ llm_instance' = None
               \/ \E r \in SelectionResponses :
                    llm_instance' =
                        IF r.complete
                        THEN [ is_none |-> FALSE, model_name |-> r.model_name,
                               context_window |-> r.context_window,
                               temperature |-> r.temperature ]
                        ELSE None
    /\ UNCHANGED << instruction, lists, dicts, structured_instruction,
                    agent_config, frame, depth, feedback, retry_count,
                    adjustment_strategy, adjusted_config, qa_config,
                    challenge_questions, responses, scores, qa_result,
                    returned, audit >>

(* genesis lines 41-43: the selection is written into the configuration    *)
(* dict in place; None has no attribute model_name.  Then                  *)
(* quality_assurance_test is called on agent_config.                       *)
GenesisAttachModel ==
    /\ pc = "attach"
    /\ IF llm_instance.is_none
       THEN /\ pc' = "genesis_exit"
            /\ outcome' = Raised("AttributeError", "model_name")
            /\ UNCHANGED << dicts, qa_config >>
       ELSE /\ dicts' = [dicts EXCEPT ![agent_config] =
                            @ @@ [ selected_model |-> llm_instance.model_name,
                                   model_temperature |-> llm_instance.temperature,
                                   model_context_window |->
                                       llm_instance.context_window ]]
            /\ qa_config' = agent_config
            /\ pc' = "qa_generate"
            /\ outcome' = outcome
    /\ UNCHANGED << instruction, lists, structured_instruction, agent_config,
                    llm_instance, frame, depth, feedback, retry_count,
                    adjustment_strategy, adjusted_config, challenge_questions,
                    responses, scores, qa_result, returned, gateway, audit >>

-----------------------------------------------------------------------------
(* Exact fractions *)

Frac(n, d) == [num |-> n, den |-> d]
GE(a, b) == a.num * b.den >= b.num * a.den
LT(a, b) == ~GE(a, b)
IsZero(a) == a.num = 0

RECURSIVE SumScore(_)
SumScore(ss) == IF ss = << >> THEN 0 ELSE Head(ss).score + SumScore(Tail(ss))

RECURSIVE CountTrue(_)
CountTrue(bs) ==
    IF bs = << >> THEN 0 ELSE (IF Head(bs) THEN 1 ELSE 0) + CountTrue(Tail(bs))

\* format(x, ".1f") of a number of tenths
Fmt1(d) ==
    CASE d = 0 -> "0.0" [] d = 1 -> "0.1" [] d = 2 -> "0.2" [] d = 3 -> "0.3"
      [] d = 4 -> "0.4" [] d = 5 -> "0.5" [] d = 6 -> "0.6" [] d = 7 -> "0.7"
      [] d = 8 -> "0.8" [] d = 9 -> "0.9" [] d = 10 -> "1.0"
      [] OTHER -> ToString(d)

\* a fraction rounded to a whole number of 1/scale
Rounded(a, scale) == (2 * a.num * scale + a.den) \div (2 * a.den)

-----------------------------------------------------------------------------
(* Challenge generation (qa_vet.generate_challenge_questions) *)

Entry(q, answer, difficulty) ==
    [ has_q |-> TRUE, q |-> q, has_answer |-> TRUE, answer |-> answer,
      has_difficulty |-> TRUE, difficulty |-> difficulty, source |-> "LeetCode" ]

\* parsed_json of the challenge-generation call: lists of entries
GatewayQuestionLists ==
    { << Entry(<< "Define", "recursion" >>, << "self", "reference" >>, 3),
         Entry(<< "Index", "a", "table" >>, << "b-tree" >>, 4),
         Entry(<< "Design", "a", "cache" >>, << "lru" >>, 6),
         Entry(<< "Balance", "a", "tree" >>, << "rotations" >>, 8),
         Entry(<< "Prove", "termination" >>, << "ranking", "function" >>, 9),
         Entry(<< "Extra" >>, << "dropped" >>, 9) >>,
      << Entry(<< "Explain", "Variance", "of", "a", "sample" >>,
               << "mean", "squared", "deviation" >>, 4),
         [ has_q |-> TRUE, q |-> << "No", "answer", "given" >>,
           has_answer |-> FALSE, answer |-> << >>,
           has_difficulty |-> TRUE, difficulty |-> 2, source |-> "Google" ],
         [ has_q |-> TRUE, q |-> << "Reach", "100%", "coverage" >>,
           has_answer |-> TRUE, answer |-> << "tests" >>,
           has_difficulty |-> FALSE, difficulty |-> 0, source |-> "Google" ] >> }

IsValidEntry(e) == e.has_q /\ e.has_answer

ToQuestion(e) ==
    [ q |-> e.q, answer |-> e.answer,
      difficulty |-> IF e.has_difficulty THEN e.difficulty
                     ELSE DefaultDifficulty,
      source |-> e.source ]

Level(i) ==
    CASE i = 0 -> "basic" [] i = 1 -> "intermediate" [] OTHER -> "advanced"

\* the while loop that pads valid_questions to num_questions
RECURSIVE Pad(_, _, _)
Pad(valid, agent_type, n) ==
    IF Len(valid) >= n THEN valid
    ELSE Pad(Append(valid,
                [ q |-> << "Explain", "a", Level(Len(valid) % 3), "concept",
                           "related", "to", agent_type >>,
                  answer |-> << "Detailed", "technical", "explanation" >>,
                  difficulty |-> IF Len(valid) = 0 THEN 3
                                 ELSE IF Len(valid) = 1 THEN 6 ELSE 8,
                  source |-> "Fallback" ]),
             agent_type, n)

\* mutant: the valid questions are not padded to num_questions
QuestionsUnpaddedMutant(entries, agent_type, n) ==
    LET validated == SelectSeq(entries, IsValidEntry)
        valid == [i \in 1..Len(validated) |-> ToQuestion(validated[i])]
    IN Take(valid, n)

\* the body of the try block: validate, pad, truncate
QuestionsFrom(entries, agent_type, n) ==
    LET validated == SelectSeq(entries, IsValidEntry)
        valid == [i \in 1..Len(validated) |-> ToQuestion(validated[i])]
    IN Take(Pad(valid, agent_type, n), n)

\* the except clause: three hardcoded questions
FallbackQuestions(agent_type, capabilities, n) ==
    Take(<< [ q |-> << "Basic", "task", ":", "Explain", "the", "fundamentals",
                       "of", agent_type >>,
              answer |-> << "Clear", "explanation", "of", "core", "concepts" >>,
              difficulty |-> 3, source |-> "Fallback" ],
            [ q |-> << "Intermediate", ":", "Apply",
                       IF capabilities # << >> THEN capabilities[1]
                       ELSE "your skills",
                       "to", "solve", "a", "problem" >>,
              answer |-> << "Practical", "application", "with", "reasoning" >>,
              difficulty |-> 6, source |-> "Fallback" ],
            [ q |-> << "Advanced", ":", "Optimize", "and", "debug", "complex",
                       agent_type, "scenarios" >>,
              answer |-> << "Deep", "technical", "solution", "with", "edge",
                            "cases" >>,
              difficulty |-> 8, source |-> "Fallback" ] >>, n)

\* parsed_json of the challenge-generation call is a list of entries, a
\* string (of JSON or not), a single object or a scalar
ListPayload(entries) == [ kind |-> "list", entries |-> entries ]

\* what the Gateway answers in the pipeline: lists of entries
GatewayQuestionPayloads == { ListPayload(l) : l \in GatewayQuestionLists }

BadDifficultyEntry ==
    [ has_q |-> TRUE, q |-> << "Sort", "a", "list" >>,
      has_answer |-> TRUE, answer |-> << "quicksort" >>,
      has_difficulty |-> TRUE, difficulty |-> 0, difficulty_text |-> "hard",
      source |-> "Amazon" ]

\* what the Gateway may answer at all
QuestionPayloads ==
    GatewayQuestionPayloads
    \cup { ListPayload(<< Entry(<< "Define", "recursion" >>,
                               << "self", "reference" >>, 3),
                         BadDifficultyEntry >>),
           ListPayload(<< >>),
           [ kind |-> "text", is_json |-> FALSE, entries |-> << >> ],
           [ kind |-> "text", is_json |-> TRUE,
             entries |-> << Entry(<< "Index", "a", "table" >>,
                                  << "b-tree" >>, 4) >> ],
           [ kind |-> "object",
             entries |-> << Entry(<< "Design", "a", "cache" >>,
                                  << "lru" >>, 6) >> ],
           [ kind |-> "scalar", entries |-> << >> ] }

\* float(q.get("difficulty", 0.5)) raises on a value that is no number
FloatRaises(e) == e.has_difficulty /\ "difficulty_text" \in DOMAIN e

\* an exception inside the try block: json.loads of a string that is not
\* JSON, or float() of the difficulty of an entry that passed the check
ParseRaises(payload) ==
    \/ payload.kind = "text" /\ ~payload.is_json
    \/ \E i \in 1..Len(payload.entries) :
          IsValidEntry(payload.entries[i]) /\ FloatRaises(payload.entries[i])

\* lines 117-196: the try block and its except clause
ParsedQuestions(payload, agent_type, capabilities, n) ==
    IF ParseRaises(payload)
    THEN FallbackQuestions(agent_type, capabilities, n)
    ELSE QuestionsFrom(payload.entries, agent_type, n)

-----------------------------------------------------------------------------
(* Response simulation and evaluation *)

\* parsed_json["text"] of the simulation call: the expected answer in a
\* sentence, or, on a hard question, an admission of doubt
SimulatedTexts(question) ==
    IF question.difficulty >= HardFrom
    THEN { << "I", "am", "unsure" >> }
    ELSE { << "It", "is" >> \o question.answer }

ErrorResponse == << "Error", "generating", "response", ":", "exception" >>

\* parsed_json of the evaluation call; absent keys take the .get defaults
EvaluationResponses ==
    { [ has_correct |-> TRUE, correct |-> TRUE, has_score |-> TRUE, score |-> 9 ],
      [ has_correct |-> TRUE, correct |-> FALSE, has_score |-> TRUE, score |-> 3 ] }

Judged(r) ==
    [ correct |-> IF r.has_correct THEN r.correct ELSE FALSE,
      score |-> IF r.has_score THEN r.score ELSE 0 ]

\* the except clause of evaluate_responses: substring matching
SubstringMatch(question, response) ==
    LET correct == Contains(Lower(response), Lower(question.answer))
    IN [ correct |-> correct, score |-> IF correct THEN 10 ELSE 0 ]

ScoreEntry(question, judged) ==
    [ question |-> question.q, correct |-> judged.correct,
      score |-> judged.score, difficulty |-> question.difficulty ]

-----------------------------------------------------------------------------
(* The acceptance gate (qa_vet.quality_assurance_test, lines 47-69) *)

min_acceptable_score == Frac(MinAcceptableTenths, 10)
optimal_variance_range ==
    << Frac(VarianceLowPct, 100), Frac(VarianceHighPct, 100) >>

\* mutant: the sample variance, with n - 1 for one of the two n
VarianceOfSampleMutant(binary_outcomes) ==
    IF Len(binary_outcomes) < 2 THEN Frac(0, 1)
    ELSE LET n == Len(binary_outcomes)
             k == CountTrue(binary_outcomes)
         IN Frac(k * (n - k), n * (n - 1))

\* p * (1 - p) with p = sum / len; 0.0 for no outcomes
calculate_variance(binary_outcomes) ==
    IF binary_outcomes = << >> THEN Frac(0, 1)
    ELSE LET n == Len(binary_outcomes)
             k == CountTrue(binary_outcomes)
         IN Frac(k * (n - k), n * n)

Correctness(scs) == [i \in 1..Len(scs) |-> scs[i].correct]

-----------------------------------------------------------------------------
(* Python floats are IEEE-754 doubles: a significand of 53 bits, every     *)
(* operation rounded to the nearest double, ties to the even significand.  *)
(* A positive double is [m, e]: the 53 bits m, first bit 1, read as an     *)
(* integer and divided by 2^e.  Bit strings have the highest bit first.    *)

Precision == 53
LimbBits == 13
NumLimbs == 5

Zeros(n) == [i \in 1..n |-> 0]

\* the sum of f[lo..hi]
RECURSIVE SumOver(_, _, _)
SumOver(f, lo, hi) ==
    IF lo > hi THEN 0
    ELSE IF lo = hi THEN f[lo]
    ELSE LET mid == (lo + hi) \div 2
         IN SumOver(f, lo, mid) + SumOver(f, mid + 1, hi)

\* bits without its leading zeros
StripLeading(bits) ==
    LET ones == { i \in 1..Len(bits) : bits[i] = 1 }
    IN IF ones = {} THEN << >>
       ELSE SubSeq(bits, CHOOSE i \in ones : \A j \in ones : i <= j, Len(bits))

AnyOne(bits) == \E i \in 1..Len(bits) : bits[i] = 1

\* bits + 1 in Len(bits) bits, and the carry out of them
Increment(bits) ==
    LET n == Len(bits)
        zs == { i \in 1..n : bits[i] = 0 }
    IN IF zs = {} THEN [ bits |-> Zeros(n), carry |-> 1 ]
       ELSE LET z == CHOOSE i \in zs : \A j \in zs : j <= i
            IN [ bits |-> [i \in 1..n |-> IF i < z THEN bits[i]
                                          ELSE IF i = z THEN 1 ELSE 0],
                 carry |-> 0 ]

\* 0.0 and 1.0
DZero == [ m |-> << >>, e |-> 0 ]
DOne == [ m |-> << 1 >> \o Zeros(Precision - 1), e |-> Precision - 1 ]

\* the double nearest to bits / 2^scale (plus a non-zero rest below the
\* last bit when sticky); bits starts with 1
RoundToDouble(bits, scale, sticky) ==
    LET L == Len(bits)
    IN IF L <= Precision
       THEN [ m |-> bits \o Zeros(Precision - L), e |-> scale + Precision - L ]
       ELSE LET kept == SubSeq(bits, 1, Precision)
                half == bits[Precision + 1] = 1
                rest == sticky \/ AnyOne(SubSeq(bits, Precision + 2, L))
                up == half /\ (rest \/ kept[Precision] = 1)
                inc == Increment(kept)
                dropped == L - Precision
            IN IF ~up THEN [ m |-> kept, e |-> scale - dropped ]
               ELSE IF inc.carry = 1
               THEN [ m |-> << 1 >> \o Zeros(Precision - 1),
                      e |-> scale - dropped - 1 ]
               ELSE [ m |-> SubSeq(inc.bits, 1, Precision),
                      e |-> scale - dropped ]

\* the bits of a list of limbs, highest limb first
LimbsToBits(limbs) ==
    [i \in 1..(Len(limbs) * LimbBits) |->
        (limbs[(i - 1) \div LimbBits + 1]
            \div (2 ^ (LimbBits - 1 - ((i - 1) % LimbBits)))) % 2]

\* long division: count limbs of r / n after the point (r < n), highest
\* first, and the remainder
RECURSIVE Quotient(_, _, _)
Quotient(r, n, count) ==
    IF count = 0 THEN [ limbs |-> << >>, rem |-> r ]
    ELSE LET t == r * (2 ^ LimbBits)
             rest == Quotient(t % n, n, count - 1)
         IN [ limbs |-> << t \div n >> \o rest.limbs, rem |-> rest.rem ]

\* k / n in doubles, 0 <= k <= n
Divide(k, n) ==
    IF k = 0 THEN DZero
    ELSE IF k = n THEN DOne
    ELSE LET q == Quotient(k, n, NumLimbs + 1)
         IN RoundToDouble(StripLeading(LimbsToBits(q.limbs)),
                          (NumLimbs + 1) * LimbBits, q.rem # 0)

\* 1 - a in doubles, 0 <= a <= 1
OneMinus(a) ==
    IF a = DZero THEN DOne
    ELSE IF a = DOne THEN DZero
    ELSE LET padded == Zeros(a.e - Precision) \o a.m
             inverted == [i \in 1..Len(padded) |-> 1 - padded[i]]
         IN RoundToDouble(StripLeading(Increment(inverted).bits), a.e, FALSE)

\* a significand in base 2^LimbBits, the lowest limb first
Limbs(m) ==
    LET width == NumLimbs * LimbBits
        padded == Zeros(width - Len(m)) \o m
        limb(l) == SumOver([t \in 1..LimbBits |->
                               padded[(NumLimbs - l) * LimbBits + t]
                                   * (2 ^ (LimbBits - t))],
                           1, LimbBits)
    IN [l \in 1..NumLimbs |-> limb(l)]

\* the limbs of a list of column sums, the highest limb first
RECURSIVE Carry(_, _, _)
Carry(cols, j, carry) ==
    IF j > Len(cols) THEN << >>
    ELSE LET t == cols[j] + carry
         IN Carry(cols, j + 1, t \div (2 ^ LimbBits))
            \o << t % (2 ^ LimbBits) >>

\* a * b in doubles
Multiply(a, b) ==
    IF a = DZero \/ b = DZero THEN DZero
    ELSE LET A == Limbs(a.m)
             B == Limbs(b.m)
             col(j) == SumOver([i \in 1..NumLimbs |->
                                   IF j - i + 1 >= 1 /\ j - i + 1 <= NumLimbs
                                   THEN A[i] * B[j - i + 1] ELSE 0],
                               1, NumLimbs)
             cols == [j \in 1..(2 * NumLimbs) |-> col(j)]
         IN RoundToDouble(StripLeading(LimbsToBits(Carry(cols, 1, 0))),
                          a.e + b.e, FALSE)

\* mutant: the pass rate is squared
VarianceSquaredMutant(binary_outcomes) ==
    IF binary_outcomes = << >> THEN DZero
    ELSE LET p == Divide(CountTrue(binary_outcomes), Len(binary_outcomes))
         IN Multiply(p, p)

\* calculate_variance as CPython computes it (lines 301-305):
\* p = sum(binary_outcomes) / len(binary_outcomes); p * (1 - p)
calculate_variance_double(binary_outcomes) ==
    IF binary_outcomes = << >> THEN DZero
    ELSE LET p == Divide(CountTrue(binary_outcomes), Len(binary_outcomes))
         IN Multiply(p, OneMinus(p))

\* sum(scores) / len(scores), scores in tenths
AverageScore(scs) == Frac(SumScore(scs), 10 * Len(scs))

\* mutant: the competence threshold is relaxed on a retry
PassedLenientOnRetryMutant(avg_score, variance) ==
    /\ GE(avg_score, IF retry_count = 0 THEN min_acceptable_score
                     ELSE Frac(1, 2))
    /\ GE(variance, optimal_variance_range[1])
    /\ GE(optimal_variance_range[2], variance)

\* mutant: the competence threshold is exclusive
PassedStrictMutant(avg_score, variance) ==
    /\ ~GE(min_acceptable_score, avg_score)
    /\ GE(variance, optimal_variance_range[1])
    /\ GE(optimal_variance_range[2], variance)

\* mutant: the variance has an upper bound only
PassedNoLowerBoundMutant(avg_score, variance) ==
    /\ GE(avg_score, min_acceptable_score)
    /\ GE(optimal_variance_range[2], variance)

Passed(avg_score, variance) ==
    /\ GE(avg_score, min_acceptable_score)
    /\ GE(variance, optimal_variance_range[1])
    /\ GE(optimal_variance_range[2], variance)

generate_qa_reason(passed, avg_score, variance) ==
    IF ~passed
    THEN IF LT(avg_score, min_acceptable_score)
         THEN << "Agent scored below competence threshold",
                 ToString(Rounded(avg_score, 100)),
                 "Agent needs more training or simpler tasks." >>
         ELSE IF LT(variance, optimal_variance_range[1])
         THEN IF IsZero(variance)
              THEN << "Task difficulty not optimal",
                      ToString(Rounded(variance, 1000)),
                      "All questions answered identically - need more varied difficulty levels." >>
              ELSE << "Task difficulty not optimal",
                      ToString(Rounded(variance, 1000)),
                      "Questions too easy or too hard - need better difficulty distribution." >>
         ELSE << "Task difficulty not optimal",
                 ToString(Rounded(variance, 1000)),
                 "Performance too inconsistent - questions may be poorly calibrated." >>
    ELSE << "Agent passed all quality checks",
            ToString(Rounded(avg_score, 100)),
            ToString(Rounded(variance, 1000)) >>

IsFailed(s) == ~s.correct
IsEasy(s) == s.difficulty < EasyBelow
IsHard(s) == s.difficulty >= HardFrom

AllCorrectFeedback ==
    << "All", "questions", "answered", "correctly", ",", "but", "this", "may",
       "indicate", "questions", "are", "too", "easy", ".", "Consider",
       "increasing", "difficulty", "." >>

\* mutant: the line names the question and not its difficulty
FocusLineNoDifficultyMutant(s) == << "-", "'" >> \o s.question \o << "'" >>

\* one line of the "Focus on improving:" list
FocusLine(s) ==
    << "-", "'" >> \o s.question
    \o << "'", "(", "difficulty", ":", Fmt1(s.difficulty), ")" >>

RECURSIVE FocusLines(_)
FocusLines(ss) ==
    IF ss = << >> THEN << >>
    ELSE << "\n" >> \o FocusLine(Head(ss)) \o FocusLines(Tail(ss))

generate_qa_feedback(scs) ==
    LET failed_questions == SelectSeq(scs, IsFailed)
        failed_easy == SelectSeq(failed_questions, IsEasy)
        failed_hard == SelectSeq(failed_questions, IsHard)
    IN IF failed_questions = << >>
       THEN AllCorrectFeedback
       ELSE (IF failed_easy # << >>
             THEN << "Failed", ToString(Len(failed_easy)), "easy",
                     "question(s)", "-", "fundamental", "gaps", "detected",
                     "\n" >>
             ELSE << >>)
            \o (IF failed_hard # << >>
                THEN << "Failed", ToString(Len(failed_hard)), "hard",
                        "question(s)", "-", "expected", "at", "capability",
                        "frontier", "\n" >>
                ELSE << >>)
            \o << "Focus", "on", "improving", ":" >>
            \o FocusLines(Take(failed_questions, TopFailures))

\* the dict quality_assurance_test returns for a non-empty list of scores
Verdict(scs) ==
    LET correctness_variance == calculate_variance(Correctness(scs))
        avg_score == AverageScore(scs)
        passed == Passed(avg_score, correctness_variance)
    IN [ passed |-> passed,
         scores |-> [ average |-> avg_score,
                      variance |-> correctness_variance,
                      individual |-> scs ],
         reason |-> generate_qa_reason(passed, avg_score, correctness_variance),
         feedback |-> generate_qa_feedback(scs) ]

NoResult == [ passed |-> FALSE,
              scores |-> [ average |-> Frac(0, 1), variance |-> Frac(0, 1),
                           individual |-> << >> ],
              reason |-> NoText, feedback |-> NoText ]

-----------------------------------------------------------------------------
(* quality_assurance_test, step by step.  Every Gateway call of a QA run   *)
(* sits in a try block whose except clause substitutes a fallback; at      *)
(* most MaxFaults such calls fail per request.                             *)

MayFail == gateway.faults < MaxFaults
Fault(stage) ==
    [gateway EXCEPT !.called = TRUE, !.faults = @ + 1,
                    !.run_faults = @ \cup {stage}]
Call == [gateway EXCEPT !.called = TRUE]

\* the Gateway returned, and what it returned made the try block raise
ParseFault == [gateway EXCEPT !.called = TRUE, !.run_faults = @ \cup {"parse"}]

\* generate_challenge_questions, the Gateway answering with one of payloads
Generated(payloads) ==
    /\ pc = "qa_generate"
    /\ LET cfg == ConfigOf(qa_config)
       IN \/ /\ MayFail
             /\ gateway' = Fault("generate")
             /\ challenge_questions' =
                    FallbackQuestions(cfg.agent_type, ListOf(cfg.capabilities),
                                      num_questions)
          \/ \E payload \in payloads :
                /\ gateway' = IF ParseRaises(payload) THEN ParseFault ELSE Call
                /\ challenge_questions' =
                       ParsedQuestions(payload, cfg.agent_type,
                                       ListOf(cfg.capabilities), num_questions)
    /\ responses' = << >>
    /\ scores' = << >>
    /\ audit' = [audit EXCEPT !.qa_runs = @ + 1, !.evaluated = [ref |-> 0]]
    /\ pc' = "qa_simulate"
    /\ UNCHANGED << instruction, lists, dicts, structured_instruction,
                    agent_config, llm_instance, frame, depth, feedback,
                    retry_count, adjustment_strategy, adjusted_config,
                    qa_config, qa_result, outcome, returned >>

generate_challenge_questions == Generated(GatewayQuestionPayloads)

\* one iteration of the loop over challenge_questions
simulate_agent_response ==
    /\ pc = "qa_simulate"
    /\ Len(responses) < Len(challenge_questions)
    /\ LET question == challenge_questions[Len(responses) + 1]
       IN \/ /\ MayFail
             /\ gateway' = Fault("simulate")
             /\ responses' = Append(responses, ErrorResponse)
          \/ \E text \in SimulatedTexts(question) :
                /\ gateway' = Call
                /\ responses' = Append(responses, text)
    /\ pc' = IF Len(responses') = Len(challenge_questions)
             THEN "qa_evaluate" ELSE "qa_simulate"
    /\ UNCHANGED << instruction, lists, dicts, structured_instruction,
                    agent_config, llm_instance, frame, depth, feedback,
                    retry_count, adjustment_strategy, adjusted_config,
                    qa_config, challenge_questions, scores, qa_result,
                    outcome, returned, audit >>

\* mutant: the evaluation call has no except clause, the error propagates
EvaluateUnguardedMutant ==
    /\ pc = "qa_evaluate"
    /\ Len(scores) < Len(challenge_questions)
    /\ LET question == challenge_questions[Len(scores) + 1]
       IN \/ /\ MayFail
             /\ gateway' = Fault("evaluate")
             /\ outcome' = Raised("GatewayFault", "evaluate")
             /\ pc' = "genesis_exit"
             /\ scores' = scores
          \/ \E r \in EvaluationResponses :
                /\ gateway' = Call
                /\ scores' = Append(scores, ScoreEntry(question, Judged(r)))
                /\ outcome' = outcome
                /\ pc' = IF Len(scores') = Len(challenge_questions)
                         THEN "qa_gate" ELSE "qa_evaluate"
    /\ UNCHANGED << instruction, lists, dicts, structured_instruction,
                    agent_config, llm_instance, frame, depth, feedback,
                    retry_count, adjustment_strategy, adjusted_config,
                    qa_config, challenge_questions, responses, qa_result,
                    returned, audit >>

\* one iteration of the loop over zip(responses, questions)
evaluate_responses ==
    /\ pc = "qa_evaluate"
    /\ Len(scores) < Len(challenge_questions)
    /\ LET question == challenge_questions[Len(scores) + 1]
           response == responses[Len(scores) + 1]
       IN \/ /\ MayFail
             /\ gateway' = Fault("evaluate")
             /\ scores' = Append(scores,
                    ScoreEntry(question, SubstringMatch(question, response)))
          \/ \E r \in EvaluationResponses :
                /\ gateway' = Call
                /\ scores' = Append(scores, ScoreEntry(question, Judged(r)))
    /\ pc' = IF Len(scores') = Len(challenge_questions)
             THEN "qa_gate" ELSE "qa_evaluate"
    /\ UNCHANGED << instruction, lists, dicts, structured_instruction,
                    agent_config, llm_instance, frame, depth, feedback,
                    retry_count, adjustment_strategy, adjusted_config,
                    qa_config, challenge_questions, responses, qa_result,
                    outcome, returned, audit >>

\* lines 47-77: statistics, verdict, return to the caller
quality_assurance_test ==
    /\ pc = "qa_gate"
    /\ IF scores = << >>
       THEN /\ pc' = "genesis_exit"
            /\ outcome' = Raised("ZeroDivisionError", "division by zero")
            /\ UNCHANGED << qa_result, audit >>
       ELSE /\ qa_result' = Verdict(scores)
            /\ audit' = [audit EXCEPT
                  !.evaluated = [ ref |-> qa_config,
                                  object |-> Snapshot(qa_config),
                                  passed |-> Verdict(scores).passed,
                                  feedback |-> Verdict(scores).feedback,
                                  competent |-> GE(AverageScore(scores),
                                                   min_acceptable_score),
                                  faults |-> gateway.run_faults ],
                  !.all_correct = @ /\ SelectSeq(scores, IsFailed) = << >>,
                  !.competent = @ /\ GE(AverageScore(scores),
                                        min_acceptable_score)]
            /\ pc' = IF frame = "genesis" THEN "genesis_decide"
                     ELSE "retry_decide"
            /\ outcome' = outcome
    /\ challenge_questions' = << >>
    /\ responses' = << >>
    /\ scores' = << >>
    /\ gateway' = [gateway EXCEPT !.run_faults = {}]
    /\ UNCHANGED << instruction, lists, dicts, structured_instruction,
                    agent_config, llm_instance, frame, depth, feedback,
                    retry_count, adjustment_strategy, adjusted_config,
                    qa_config, returned >>

-----------------------------------------------------------------------------
(* The registrar create_agent_a2a (core/agent_generator.py): registers a   *)
(* configuration and returns its endpoint, or fails.                       *)

RegistrarOutcomes == { "endpoint", "RegistrationFault" }


-----------------------------------------------------------------------------
(* genesis after the QA run (lines 48-77) *)

\* the argument of create_agent_a2a in genesis
GenesisRegistered == agent_config

SuccessResult(cfg, result) ==
    [ success |-> TRUE, agent_id |-> cfg.agent_id,
      agent_type |-> cfg.agent_type, capabilities |-> cfg.capabilities,
      a2a_endpoint |-> "endpoint", qa_scores |-> result.scores ]

GenesisAfterQA ==
    /\ pc = "genesis_decide"
    /\ \/ /\ ~qa_result.passed
          \* genesis_retry(qa_result["feedback"], agent_config, ...)
          /\ frame' = "genesis_retry"
          /\ depth' = depth + 1
          /\ feedback' = qa_result.feedback
          /\ retry_count' = 0
          /\ qa_result' = NoResult
          /\ pc' = "retry_entry"
          /\ UNCHANGED << outcome, audit >>
       \/ /\ qa_result.passed
          /\ \E registrar \in RegistrarOutcomes :
                /\ audit' = [audit EXCEPT !.registrations =
                                Append(@, Snapshot(GenesisRegistered))]
                /\ outcome' =
                      IF registrar = "endpoint"
                      THEN Returned(SuccessResult(ConfigOf(agent_config),
                                                  qa_result))
                      ELSE Raised("RegistrationFault", "register")
          /\ pc' = "genesis_exit"
          /\ UNCHANGED << frame, depth, feedback, retry_count, qa_result >>
    /\ UNCHANGED << instruction, lists, dicts, structured_instruction,
                    agent_config, llm_instance, adjustment_strategy,
                    adjusted_config, qa_config, challenge_questions,
                    responses, scores, returned, gateway >>

-----------------------------------------------------------------------------
(* The retry controller (core/retry.py) *)

ExhaustedResult(fb, count) ==
    [ success |-> FALSE,
      message |-> "QA failed after max_retries retry attempts - human intervention required",
      feedback |-> fb,
      suggestion |-> "Review agent configuration and requirements. Consider simplifying the task or providing more specific instructions.",
      retry_count |-> count ]

\* mutant: one retry too many
ExhaustedOffByOneMutant(count) == count > max_retries

\* `if retry_count >= max_retries`
Exhausted(count) == count >= max_retries

\* mutant: the second retry looks for "difficulty" as the first one does
StrategySecondRetryMutant(fb, count) ==
    LET feedback_lower == Lower(fb)
        has(words) == Contains(feedback_lower, words)
    IN IF count = 0
       THEN IF has(<< "variance" >>) \/ has(<< "difficulty" >>)
            THEN "adjust_prompt_for_difficulty"
            ELSE IF has(<< "failed" >>) /\ has(<< "easy" >>)
            THEN "strengthen_fundamentals"
            ELSE "enhance_prompt_specificity"
       ELSE IF count = 1
       THEN IF has(<< "variance" >>) \/ has(<< "difficulty" >>)
            THEN "adjust_capabilities"
            ELSE "refine_constraints"
       ELSE IF has(<< "too", "easy" >>) \/ has(<< "100%" >>)
            THEN "increase_complexity"
            ELSE "simplify_requirements"

\* mutant: the last retry refines the constraints instead of simplifying
StrategyRefineAgainMutant(fb, count) ==
    LET feedback_lower == Lower(fb)
        has(words) == Contains(feedback_lower, words)
    IN IF count = 0
       THEN IF has(<< "variance" >>) \/ has(<< "difficulty" >>)
            THEN "adjust_prompt_for_difficulty"
            ELSE IF has(<< "failed" >>) /\ has(<< "easy" >>)
            THEN "strengthen_fundamentals"
            ELSE "enhance_prompt_specificity"
       ELSE IF count = 1
       THEN IF has(<< "variance" >>)
            THEN "adjust_capabilities"
            ELSE "refine_constraints"
       ELSE IF has(<< "too", "easy" >>) \/ has(<< "100%" >>)
            THEN "increase_complexity"
            ELSE "refine_constraints"

\* mutant: the second retry simplifies when there is no "variance"
StrategySimplifyEarlyMutant(fb, count) ==
    LET feedback_lower == Lower(fb)
        has(words) == Contains(feedback_lower, words)
    IN IF count = 0
       THEN IF has(<< "variance" >>) \/ has(<< "difficulty" >>)
            THEN "adjust_prompt_for_difficulty"
            ELSE IF has(<< "failed" >>) /\ has(<< "easy" >>)
            THEN "strengthen_fundamentals"
            ELSE "enhance_prompt_specificity"
       ELSE IF count = 1
       THEN IF has(<< "variance" >>)
            THEN "adjust_capabilities"
            ELSE "simplify_requirements"
       ELSE IF has(<< "too", "easy" >>) \/ has(<< "100%" >>)
            THEN "increase_complexity"
            ELSE "simplify_requirements"

\* mutant: the branch of the second retry is taken for every later one too
StrategyNoLastBranchMutant(fb, count) ==
    LET feedback_lower == Lower(fb)
        has(words) == Contains(feedback_lower, words)
    IN IF count = 0
       THEN IF has(<< "variance" >>) \/ has(<< "difficulty" >>)
            THEN "adjust_prompt_for_difficulty"
            ELSE IF has(<< "failed" >>) /\ has(<< "easy" >>)
            THEN "strengthen_fundamentals"
            ELSE "enhance_prompt_specificity"
       ELSE IF has(<< "variance" >>)
            THEN "adjust_capabilities"
            ELSE "refine_constraints"

_determine_adjustment_strategy(fb, count) ==
    LET feedback_lower == Lower(fb)
        has(words) == Contains(feedback_lower, words)
    IN IF count = 0
       THEN IF has(<< "variance" >>) \/ has(<< "difficulty" >>)
            THEN "adjust_prompt_for_difficulty"
            ELSE IF has(<< "failed" >>) /\ has(<< "easy" >>)
            THEN "strengthen_fundamentals"
            ELSE "enhance_prompt_specificity"
       ELSE IF count = 1
       THEN IF has(<< "variance" >>)
            THEN "adjust_capabilities"
            ELSE "refine_constraints"
       ELSE IF has(<< "too", "easy" >>) \/ has(<< "100%" >>)
            THEN "increase_complexity"
            ELSE "simplify_requirements"

\* `x in list`
Member(x, list) == \E i \in 1..Len(list) : list[i] = x

\* the strategies _apply_adjustments has a branch for
KnownStrategies ==
    { "adjust_prompt_for_difficulty", "strengthen_fundamentals",
      "enhance_prompt_specificity", "adjust_capabilities",
      "refine_constraints", "increase_complexity", "simplify_requirements" }

\* the log_event calls of _apply_adjustments and, back in genesis_retry,
\* the one before quality_assurance_test
AdjustmentEvents ==
    (IF adjustment_strategy \in KnownStrategies
     THEN << [ event |-> "ADJUSTMENT_APPLIED",
               strategy |-> adjustment_strategy ] >>
     ELSE << >>)
    \o << [ event |-> "RETRY_QA_START", attempt |-> retry_count + 1 ] >>

(* _apply_adjustments on a deep copy: the adjusted dict, capabilities and  *)
(* constraints as [config, capabilities, constraints] (list contents).     *)
Adjusted(cfg, caps, cons, strategy) ==
    LET plus(clause) == [cfg EXCEPT !.system_prompt = @ \o clause]
        same == [ config |-> cfg, capabilities |-> caps, constraints |-> cons ]
    IN CASE strategy = "adjust_prompt_for_difficulty" ->
              [same EXCEPT !.config = plus(<<
                  "\n\nIMPORTANT: Pay special attention to edge cases and complex scenarios. Provide detailed reasoning for challenging questions." >>)]
         [] strategy = "strengthen_fundamentals" ->
              [same EXCEPT !.config = plus(<<
                  "\n\nFocus on demonstrating strong understanding of fundamental concepts. Ensure accuracy in basic operations before tackling complex problems." >>)]
         [] strategy = "enhance_prompt_specificity" ->
              [same EXCEPT !.config = plus(
                  << "\n\nYour core expertise areas are: " >>
                  \o Join(caps, ", ")
                  \o << ". ", "Demonstrate deep knowledge in these specific areas." >>)]
         [] strategy = "adjust_capabilities" ->
              IF ~Member("continuous_learning", caps)
              THEN [same EXCEPT
                      !.capabilities = Append(caps, "continuous_learning"),
                      !.config = plus(<<
                          "\n\nYou have the ability to learn from feedback and improve your responses." >>)]
              ELSE same
         [] strategy = "refine_constraints" ->
              [same EXCEPT
                  !.constraints = Append(cons, "prioritize_accuracy_over_speed"),
                  !.config = plus(<<
                      "\n\nPrioritize accuracy and thoroughness in your responses." >>)]
         [] strategy = "increase_complexity" ->
              [same EXCEPT !.config = plus(<<
                  "\n\nDemonstrate advanced reasoning and consider multiple perspectives. Go beyond surface-level answers." >>)]
         [] strategy = "simplify_requirements" ->
              [same EXCEPT !.config = [cfg EXCEPT !.system_prompt =
                  << "You are a ", cfg.agent_type, ". ",
                     "Your primary capabilities are: " >>
                  \o Join(Take(caps, SimplifyCapabilities), ", ")
                  \o << ". ", "Provide clear, accurate, and concise responses." >>]]
         [] OTHER -> same

\* entry of genesis_retry: the exhaustion check, then the strategy
RetryEntry ==
    /\ pc = "retry_entry"
    /\ IF Exhausted(retry_count)
       THEN /\ outcome' = Returned(ExhaustedResult(feedback, retry_count))
            /\ pc' = "genesis_exit"
            /\ UNCHANGED << adjustment_strategy, audit >>
       ELSE /\ adjustment_strategy' =
                  _determine_adjustment_strategy(feedback, retry_count)
            /\ audit' = [audit EXCEPT
                  !.strategies = Append(@, adjustment_strategy'),
                  !.events = Append(@, [ event |-> "RETRY_STRATEGY",
                                         attempt |-> retry_count + 1,
                                         strategy |-> adjustment_strategy' ])]
            /\ pc' = "retry_adjust"
            /\ outcome' = outcome
    /\ UNCHANGED << instruction, lists, dicts, structured_instruction,
                    agent_config, llm_instance, frame, depth, feedback,
                    retry_count, adjusted_config, qa_config,
                    challenge_questions, responses, scores, qa_result,
                    returned, gateway >>

\* mutant: copy.copy instead of copy.deepcopy, the lists are shared
ApplyShallowCopyMutant ==
    /\ pc = "retry_adjust"
    /\ LET cfg == ConfigOf(agent_config)
           new == Adjusted(cfg, ListOf(cfg.capabilities),
                           ListOf(cfg.constraints), adjustment_strategy)
       IN /\ lists' = [lists EXCEPT ![cfg.capabilities] = new.capabilities,
                                    ![cfg.constraints] = new.constraints]
          /\ dicts' = Append(dicts, new.config)
          /\ adjusted_config' = Len(dicts) + 1
          /\ qa_config' = Len(dicts) + 1
    /\ audit' = [audit EXCEPT !.adjustments = @ + 1,
                               !.events = @ \o AdjustmentEvents]
    /\ pc' = "qa_generate"
    /\ UNCHANGED << instruction, structured_instruction, agent_config,
                    llm_instance, frame, depth, feedback, retry_count,
                    adjustment_strategy, challenge_questions, responses,
                    scores, qa_result, outcome, returned, gateway >>

\* mutant: the adjusted configuration is given an identity of its own
ApplyNewIdentityMutant ==
    /\ pc = "retry_adjust"
    /\ LET cfg == ConfigOf(agent_config)
           new == Adjusted(cfg, ListOf(cfg.capabilities),
                           ListOf(cfg.constraints), adjustment_strategy)
       IN /\ lists' = lists \o << new.capabilities, new.constraints >>
          /\ dicts' = Append(dicts,
                [new.config EXCEPT !.capabilities = Len(lists) + 1,
                                   !.constraints = Len(lists) + 2,
                                   !.agent_id = "uuid-2"])
          /\ adjusted_config' = Len(dicts) + 1
          /\ qa_config' = Len(dicts) + 1
    /\ audit' = [audit EXCEPT !.adjustments = @ + 1,
                               !.events = @ \o AdjustmentEvents]
    /\ pc' = "qa_generate"
    /\ UNCHANGED << instruction, structured_instruction, agent_config,
                    llm_instance, frame, depth, feedback, retry_count,
                    adjustment_strategy, challenge_questions, responses,
                    scores, qa_result, outcome, returned, gateway >>

\* mutant: no copy at all, the configuration is adjusted in place
ApplyInPlaceMutant ==
    /\ pc = "retry_adjust"
    /\ LET cfg == ConfigOf(agent_config)
           new == Adjusted(cfg, ListOf(cfg.capabilities),
                           ListOf(cfg.constraints), adjustment_strategy)
       IN /\ lists' = [lists EXCEPT ![cfg.capabilities] = new.capabilities,
                                    ![cfg.constraints] = new.constraints]
          /\ dicts' = [dicts EXCEPT ![agent_config] = new.config]
          /\ adjusted_config' = agent_config
          /\ qa_config' = agent_config
    /\ audit' = [audit EXCEPT !.adjustments = @ + 1,
                               !.events = @ \o AdjustmentEvents]
    /\ pc' = "qa_generate"
    /\ UNCHANGED << instruction, structured_instruction, agent_config,
                    llm_instance, frame, depth, feedback, retry_count,
                    adjustment_strategy, challenge_questions, responses,
                    scores, qa_result, outcome, returned, gateway >>

\* mutant: the re-run is given agent_config, not the adjusted copy
RerunOnUnadjustedMutant ==
    /\ pc = "retry_adjust"
    /\ LET cfg == ConfigOf(agent_config)
           new == Adjusted(cfg, ListOf(cfg.capabilities),
                           ListOf(cfg.constraints), adjustment_strategy)
       IN /\ lists' = lists \o << new.capabilities, new.constraints >>
          /\ dicts' = Append(dicts,
                [new.config EXCEPT !.capabilities = Len(lists) + 1,
                                   !.constraints = Len(lists) + 2])
          /\ adjusted_config' = Len(dicts) + 1
          /\ qa_config' = agent_config
    /\ audit' = [audit EXCEPT !.adjustments = @ + 1,
                               !.events = @ \o AdjustmentEvents]
    /\ pc' = "qa_generate"
    /\ UNCHANGED << instruction, structured_instruction, agent_config,
                    llm_instance, frame, depth, feedback, retry_count,
                    adjustment_strategy, challenge_questions, responses,
                    scores, qa_result, outcome, returned, gateway >>

\* _apply_adjustments, then quality_assurance_test(adjusted_config, ...)
_apply_adjustments ==
    /\ pc = "retry_adjust"
    /\ LET cfg == ConfigOf(agent_config)
           new == Adjusted(cfg, ListOf(cfg.capabilities),
                           ListOf(cfg.constraints), adjustment_strategy)
       IN /\ lists' = lists \o << new.capabilities, new.constraints >>
          /\ dicts' = Append(dicts,
                [new.config EXCEPT !.capabilities = Len(lists) + 1,
                                   !.constraints = Len(lists) + 2])
          /\ adjusted_config' = Len(dicts) + 1
          /\ qa_config' = Len(dicts) + 1
    /\ audit' = [audit EXCEPT !.adjustments = @ + 1,
                               !.events = @ \o AdjustmentEvents]
    /\ pc' = "qa_generate"
    /\ UNCHANGED << instruction, structured_instruction, agent_config,
                    llm_instance, frame, depth, feedback, retry_count,
                    adjustment_strategy, challenge_questions, responses,
                    scores, qa_result, outcome, returned, gateway >>

\* mutant: the configuration before the adjustment is registered
RetryRegisteredStaleMutant == agent_config

\* the argument of create_agent_a2a in genesis_retry
RetryRegistered == adjusted_config

\* mutant: the recursive call passes on the feedback it was given
NextFeedbackStaleMutant == feedback

\* the feedback argument of the recursive call
NextFeedback == qa_result.feedback

\* mutant: the 0-based retry index is reported
RetrySuccessZeroBasedMutant(cfg, result, count) ==
    [ success |-> TRUE, agent_id |-> cfg.agent_id,
      agent_type |-> cfg.agent_type, capabilities |-> cfg.capabilities,
      a2a_endpoint |-> "endpoint", qa_scores |-> result.scores,
      retry_count |-> count ]

RetrySuccessResult(cfg, result, count) ==
    [ success |-> TRUE, agent_id |-> cfg.agent_id,
      agent_type |-> cfg.agent_type, capabilities |-> cfg.capabilities,
      a2a_endpoint |-> "endpoint", qa_scores |-> result.scores,
      retry_count |-> count + 1 ]

\* mutant: the recursive call passes retry_count on as it is
RecurseSameCountMutant ==
    /\ pc = "retry_decide"
    /\ \/ /\ qa_result.passed
          /\ \E registrar \in RegistrarOutcomes :
                /\ audit' = [audit EXCEPT !.registrations =
                                Append(@, Snapshot(RetryRegistered))]
                /\ outcome' =
                      IF registrar = "endpoint"
                      THEN Returned(RetrySuccessResult(
                               ConfigOf(adjusted_config), qa_result,
                               retry_count))
                      ELSE Raised("RegistrationFault", "register")
          /\ pc' = "genesis_exit"
          /\ UNCHANGED << agent_config, depth, feedback, retry_count,
                          adjustment_strategy, adjusted_config, qa_result >>
       \/ /\ ~qa_result.passed
          /\ feedback' = NextFeedback
          /\ agent_config' = adjusted_config
          /\ retry_count' = retry_count
          /\ depth' = depth + 1
          /\ adjustment_strategy' = ""
          /\ adjusted_config' = 0
          /\ qa_result' = NoResult
          /\ pc' = "retry_entry"
          /\ UNCHANGED << outcome, audit >>
    /\ UNCHANGED << instruction, lists, dicts, structured_instruction,
                    llm_instance, frame, qa_config, challenge_questions,
                    responses, scores, returned, gateway >>

\* mutant: a failure of the registrar counts as a failed attempt
RetryOnRegistrationFaultMutant ==
    /\ pc = "retry_decide"
    /\ \/ /\ qa_result.passed
          /\ audit' = [audit EXCEPT !.registrations =
                          Append(@, Snapshot(RetryRegistered))]
          /\ \/ /\ outcome' = Returned(RetrySuccessResult(
                                  ConfigOf(adjusted_config), qa_result,
                                  retry_count))
                /\ pc' = "genesis_exit"
                /\ UNCHANGED << agent_config, depth, feedback, retry_count,
                                adjustment_strategy, adjusted_config,
                                qa_result >>
             \/ /\ feedback' = NextFeedback
                /\ agent_config' = adjusted_config
                /\ retry_count' = retry_count + 1
                /\ depth' = depth + 1
                /\ adjustment_strategy' = ""
                /\ adjusted_config' = 0
                /\ qa_result' = NoResult
                /\ pc' = "retry_entry"
                /\ outcome' = outcome
       \/ /\ ~qa_result.passed
          /\ feedback' = NextFeedback
          /\ agent_config' = adjusted_config
          /\ retry_count' = retry_count + 1
          /\ depth' = depth + 1
          /\ adjustment_strategy' = ""
          /\ adjusted_config' = 0
          /\ qa_result' = NoResult
          /\ pc' = "retry_entry"
          /\ UNCHANGED << outcome, audit >>
    /\ UNCHANGED << instruction, lists, dicts, structured_instruction,
                    llm_instance, frame, qa_config, challenge_questions,
                    responses, scores, returned, gateway >>

\* genesis_retry after the QA re-run (lines 70-100)
RetryAfterQA ==
    /\ pc = "retry_decide"
    /\ \/ /\ qa_result.passed
          /\ \E registrar \in RegistrarOutcomes :
                /\ audit' = [audit EXCEPT !.registrations =
                                Append(@, Snapshot(RetryRegistered))]
                /\ outcome' =
                      IF registrar = "endpoint"
                      THEN Returned(RetrySuccessResult(
                               ConfigOf(adjusted_config), qa_result,
                               retry_count))
                      ELSE Raised("RegistrationFault", "register")
          /\ pc' = "genesis_exit"
          /\ UNCHANGED << agent_config, depth, feedback, retry_count,
                          adjustment_strategy, adjusted_config, qa_result >>
       \/ /\ ~qa_result.passed
          \* genesis_retry(qa_result["feedback"], adjusted_config, ...,
          \*               retry_count + 1, max_retries)
          /\ feedback' = NextFeedback
          /\ agent_config' = adjusted_config
          /\ retry_count' = retry_count + 1
          /\ depth' = depth + 1
          /\ adjustment_strategy' = ""
          /\ adjusted_config' = 0
          /\ qa_result' = NoResult
          /\ pc' = "retry_entry"
          /\ UNCHANGED << outcome, audit >>
    /\ UNCHANGED << instruction, lists, dicts, structured_instruction,
                    llm_instance, frame, qa_config, challenge_questions,
                    responses, scores, returned, gateway >>

-----------------------------------------------------------------------------
(* main.create_agent: returns the result of genesis; every exception is    *)
(* caught, printed and replaced by None.                                   *)

create_agent ==
    /\ pc = "genesis_exit"
    /\ returned' = IF outcome.kind = "return"
                   THEN [ kind |-> "value", value |-> outcome.value ]
                   ELSE [ kind |-> "none" ]
    /\ pc' = "done"
    /\ UNCHANGED << instruction, lists, dicts, structured_instruction,
                    agent_config, llm_instance, frame, depth, feedback,
                    retry_count, adjustment_strategy, adjusted_config,
                    qa_config, challenge_questions, responses, scores,
                    qa_result, outcome, gateway, audit >>

-----------------------------------------------------------------------------
(* The creation request *)

Instructions ==
    { NoneInstruction,
      Str(<< >>),
      Str(<< <<"ws", 3>> >>),
      Str(<< <<"ws", 2>>, <<"ch", 9>>, <<"ws", 1>> >>),
      Str(<< <<"ch", 4>>, <<"ws", 2>>, <<"ch", 6>> >>),
      Str(<< <<"ch", 5001>> >>) }

Idle ==
    /\ structured_instruction = [ agent_type |-> "" ]
    /\ llm_instance = None
    /\ depth = 0
    /\ feedback = NoText
    /\ retry_count = 0
    /\ adjustment_strategy = ""
    /\ adjusted_config = 0
    /\ responses = << >>
    /\ qa_result = NoResult
    /\ outcome = Running
    /\ returned = [ kind |-> "pending" ]
    /\ gateway = [ called |-> FALSE, faults |-> 0, run_faults |-> {} ]
    /\ audit = [ qa_runs |-> 0, adjustments |-> 0, strategies |-> << >>,
                 events |-> << >>, registrations |-> << >>,
                 evaluated |-> [ ref |-> 0 ],
                 all_correct |-> TRUE, competent |-> TRUE ]

Init ==
    /\ pc = "genesis"
    /\ instruction \in Instructions
    /\ frame = "create_agent"
    /\ lists = << >>
    /\ dicts = << >>
    /\ agent_config = 0
    /\ qa_config = 0
    /\ challenge_questions = << >>
    /\ scores = << >>
    /\ Idle

Next ==
    \/ GenesisValidate
    \/ convert_query_via_mdp
    \/ get_agent_setup_data
    \/ select_llm
    \/ GenesisAttachModel
    \/ generate_challenge_questions
    \/ simulate_agent_response
    \/ evaluate_responses
    \/ quality_assurance_test
    \/ GenesisAfterQA
    \/ RetryEntry
    \/ _apply_adjustments
    \/ RetryAfterQA
    \/ create_agent

Spec == Init /\ [][Next]_vars

(* genesis is sequential code: a step that can be taken is taken, every    *)
(* call of the Gateway or of the registrar returning or raising.           *)
FairSpec == Spec /\ WF_vars(Next)

-----------------------------------------------------------------------------
(* Input validation on its own: genesis is entered with one of many        *)
(* instructions and runs up to the end of its validation.                  *)

Margins == { 0, 1, 3 }

Bodies ==
    { << >>,
      << <<"ch", 1>> >>,
      << <<"ch", 9>> >>,
      << <<"ch", 10>> >>,
      << <<"ch", 11>> >>,
      << <<"ch", 4>>, <<"ws", 1>>, <<"ch", 4>> >>,
      << <<"ch", 4>>, <<"ws", 2>>, <<"ch", 4>> >>,
      << <<"ch", 3>>, <<"ws", 6>>, <<"ch", 3>> >>,
      << <<"ch", 5>>, <<"ws", 3>>, <<"ch", 5>> >>,
      << <<"ch", 4996>> >>,
      << <<"ch", 4997>> >>,
      << <<"ch", 4999>> >>,
      << <<"ch", 5000>> >>,
      << <<"ch", 5001>> >>,
      << <<"ch", 2500>>, <<"ws", 2498>>, <<"ch", 2>> >>,
      << <<"ch", 6>>, <<"ws", 4990>>, <<"ch", 3>> >> }

Surrounded(lead, body, trail) ==
    (IF lead > 0 THEN << <<"ws", lead>> >> ELSE << >>)
    \o body
    \o (IF trail > 0 THEN << <<"ws", trail>> >> ELSE << >>)

ValidationInputs ==
    { NoneInstruction }
    \cup { Str(Surrounded(lead, body, trail)) :
             lead \in Margins, body \in Bodies, trail \in Margins }

ValidateInit ==
    /\ pc = "genesis"
    /\ instruction \in ValidationInputs
    /\ frame = "create_agent"
    /\ lists = << >>
    /\ dicts = << >>
    /\ agent_config = 0
    /\ qa_config = 0
    /\ challenge_questions = << >>
    /\ scores = << >>
    /\ Idle

ValidateNext ==
    \/ GenesisValidate
    \/ create_agent

ValidateSpec == ValidateInit /\ [][ValidateNext]_vars

-----------------------------------------------------------------------------
(* The acceptance gate on its own: quality_assurance_test has evaluated    *)
(* its questions (five from the Gateway or the three fallback ones, or     *)
(* none) and computes the verdict of the results.                          *)

ScoreGrid == { 0, 3, 4, 8, 9, 10 }

Judgements == [ correct : BOOLEAN, score : ScoreGrid ]

GateConfig ==
    [ agent_id |-> "uuid-1", agent_type |-> "data_analyst",
      capabilities |-> 1, constraints |-> 2,
      success_criteria |-> "accurate summary",
      system_prompt |-> << "You are a ", "data_analyst", "." >>,
      selected_model |-> "gemini-1.5-flash", model_temperature |-> 7,
      model_context_window |-> 1000000 ]

GateQuestionLists ==
    { QuestionsFrom(entries, "data_analyst", num_questions) :
          entries \in { l \in GatewayQuestionLists : Len(l) > num_questions } }
    \cup { FallbackQuestions("data_analyst", << "statistics" >>, num_questions),
           << >> }

\* the results of one judgement per question
Results(questions, judged) ==
    [i \in 1..Len(questions) |-> ScoreEntry(questions[i], judged[i])]

GateInit ==
    /\ pc = "qa_gate"
    /\ instruction = Str(<< <<"ch", 12>> >>)
    /\ frame = "genesis"
    /\ lists = << << "statistics" >>, << >> >>
    /\ dicts = << GateConfig >>
    /\ agent_config = 1
    /\ qa_config = 1
    /\ \E questions \in GateQuestionLists :
          \E judged \in [1..Len(questions) -> Judgements] :
             /\ challenge_questions = questions
             /\ scores = Results(questions, judged)
    /\ Idle

GateNext == quality_assurance_test

GateSpec == GateInit /\ [][GateNext]_vars

-----------------------------------------------------------------------------
(* The acceptance gate called twice: genesis runs quality_assurance_test   *)
(* on the initial configuration, and genesis_retry runs it again (retry.py *)
(* lines 67-68) at some retry count on some configuration; here the        *)
(* evaluation of the second run yields the results of the first.           *)

RepeatJudgements ==
    { [ correct |-> TRUE, score |-> 9 ], [ correct |-> TRUE, score |-> 4 ],
      [ correct |-> FALSE, score |-> 3 ], [ correct |-> FALSE, score |-> 8 ] }

\* the initial configuration and an adjusted copy of it
RepeatConfigs ==
    << GateConfig,
       [GateConfig EXCEPT
           !.capabilities = 3, !.constraints = 4,
           !.system_prompt = @ \o << "\n\nIMPORTANT CONSTRAINTS:\n",
                                     "Be precise." >>] >>

RepeatInit ==
    /\ pc = "qa_gate"
    /\ instruction = Str(<< <<"ch", 12>> >>)
    /\ frame = "genesis"
    /\ lists = << << "statistics" >>, << >>,
                  << "statistics" >>, << "Be precise." >> >>
    /\ dicts = RepeatConfigs
    /\ agent_config = 1
    /\ qa_config = 1
    /\ \E questions \in GateQuestionLists \ { << >> } :
          \E judged \in [1..Len(questions) ->
                            IF Len(questions) < num_questions
                            THEN Judgements ELSE RepeatJudgements] :
             /\ challenge_questions = questions
             /\ scores = Results(questions, judged)
    /\ Idle

\* the first verdict is kept by the caller; quality_assurance_test is
\* called again and reaches line 47 with equal results
RepeatCall ==
    /\ pc = "genesis_decide"
    /\ returned = [ kind |-> "pending" ]
    /\ returned' = [ kind |-> "value", value |-> qa_result ]
    /\ feedback' = qa_result.feedback
    /\ frame' = "genesis_retry"
    /\ \E count \in 0..(max_retries - 1) :
          /\ retry_count' = count
          /\ depth' = count + 1
    /\ \E cfg \in 1..Len(dicts) :
          /\ adjusted_config' = cfg
          /\ qa_config' = cfg
    /\ \E questions \in GateQuestionLists :
          /\ Len(questions) = Len(qa_result.scores.individual)
          /\ \A i \in 1..Len(questions) :
                /\ questions[i].q = qa_result.scores.individual[i].question
                /\ questions[i].difficulty =
                       qa_result.scores.individual[i].difficulty
          /\ challenge_questions' = questions
    /\ scores' = qa_result.scores.individual
    /\ qa_result' = NoResult
    /\ pc' = "qa_gate"
    /\ UNCHANGED << instruction, lists, dicts, structured_instruction,
                    agent_config, llm_instance, adjustment_strategy,
                    responses, outcome, gateway, audit >>

RepeatNext ==
    \/ quality_assurance_test
    \/ RepeatCall

RepeatSpec == RepeatInit /\ [][RepeatNext]_vars

-----------------------------------------------------------------------------
(* calculate_variance on its own: it is given the correct flags of a       *)
(* non-empty list of results of any length up to MaxOutcomes.              *)

VarianceResult(correct) ==
    [ question |-> << "Q" >>, correct |-> correct,
      score |-> IF correct THEN 10 ELSE 0, difficulty |-> DefaultDifficulty ]

VarianceInit ==
    /\ pc = "variance"
    /\ instruction = Str(<< <<"ch", 12>> >>)
    /\ frame = "genesis"
    /\ lists = << << "statistics" >>, << >> >>
    /\ dicts = << GateConfig >>
    /\ agent_config = 1
    /\ qa_config = 1
    /\ challenge_questions = << >>
    /\ \E n \in 1..MaxOutcomes :
          \E flags \in [1..n -> BOOLEAN] :
             scores = [i \in 1..n |-> VarianceResult(flags[i])]
    /\ Idle

\* line 48: calculate_variance([s["correct"] for s in scores])
VarianceCalculated ==
    /\ pc = "variance"
    /\ returned' = [ kind |-> "value",
                     value |-> calculate_variance_double(Correctness(scores)) ]
    /\ pc' = "variance_done"
    /\ UNCHANGED << instruction, lists, dicts, structured_instruction,
                    agent_config, llm_instance, frame, depth, feedback,
                    retry_count, adjustment_strategy, adjusted_config,
                    qa_config, challenge_questions, responses, scores,
                    qa_result, outcome, gateway, audit >>

VarianceNext == VarianceCalculated

VarianceSpec == VarianceInit /\ [][VarianceNext]_vars

-----------------------------------------------------------------------------
(* _apply_adjustments with the strategy simplify_requirements on its own:  *)
(* it is given a configuration of any agent type, with none to five        *)
(* capabilities and any prompt, and then its own result.                   *)

SimplifyTypes == { "data_analyst", "researcher" }

SimplifyCapabilities5 ==
    << "statistics", "plots", "forecasting", "reporting", "sql" >>

SimplifyCapabilityLists ==
    { Take(SimplifyCapabilities5, n) : n \in 0..Len(SimplifyCapabilities5) }

\* prompts a configuration may carry: the builder's, one amended by an
\* earlier adjustment, one already simplified, any other text
SimplifyPrompts(agent_type, capabilities) ==
    { << "You are a ", agent_type, ". ", "Your capabilities include: " >>
          \o Join(capabilities, ", ") \o << ". ", "Constraints: ", "." >>,
      << "You are a ", agent_type, ". ", "Your capabilities include: " >>
          \o Join(capabilities, ", ") \o << ". ", "Constraints: ", "." >>
          \o << "\n\nIMPORTANT: Pay special attention to edge cases and complex scenarios. Provide detailed reasoning for challenging questions." >>,
      << "You are a ", agent_type, ". ", "Your primary capabilities are: " >>
          \o Join(Take(capabilities, SimplifyCapabilities), ", ")
          \o << ". ", "Provide clear, accurate, and concise responses." >>,
      << "Answer in French." >> }

SimplifyInit ==
    /\ pc = "retry_adjust"
    /\ instruction = Str(<< <<"ch", 12>> >>)
    /\ frame = "genesis_retry"
    /\ \E agent_type \in SimplifyTypes :
          \E capabilities \in SimplifyCapabilityLists :
             \E prompt \in SimplifyPrompts(agent_type, capabilities) :
                /\ lists = << capabilities, << >> >>
                /\ dicts = << [GateConfig EXCEPT !.agent_type = agent_type,
                                                 !.system_prompt = prompt] >>
    /\ agent_config = 1
    /\ qa_config = 1
    /\ challenge_questions = << >>
    /\ scores = << >>
    /\ structured_instruction = [ agent_type |-> "" ]
    /\ llm_instance = None
    /\ depth = max_retries
    /\ feedback = << "Focus", "on", "improving", ":" >>
    /\ retry_count = max_retries - 1
    /\ adjustment_strategy = "simplify_requirements"
    /\ adjusted_config = 0
    /\ responses = << >>
    /\ qa_result = NoResult
    /\ outcome = Running
    /\ returned = [ kind |-> "pending" ]
    /\ gateway = [ called |-> FALSE, faults |-> 0, run_faults |-> {} ]
    /\ audit = [ qa_runs |-> 0, adjustments |-> 0, strategies |-> << >>,
                 events |-> << >>, registrations |-> << >>,
                 evaluated |-> [ ref |-> 0 ],
                 all_correct |-> TRUE, competent |-> TRUE ]

\* the adjusted configuration is given to _apply_adjustments again, with
\* the same strategy
SimplifyAgain ==
    /\ pc = "qa_generate"
    /\ audit.adjustments < MaxSimplifications
    /\ agent_config' = adjusted_config
    /\ adjusted_config' = 0
    /\ pc' = "retry_adjust"
    /\ UNCHANGED << instruction, lists, dicts, structured_instruction,
                    llm_instance, frame, depth, feedback, retry_count,
                    adjustment_strategy, qa_config, challenge_questions,
                    responses, scores, qa_result, outcome, returned,
                    gateway, audit >>

SimplifyNext ==
    \/ _apply_adjustments
    \/ SimplifyAgain

SimplifySpec == SimplifyInit /\ [][SimplifyNext]_vars

-----------------------------------------------------------------------------
(* _determine_adjustment_strategy on its own, next to the pipeline: it is  *)
(* given any retry count up to MaxAttempt and a feedback with any of the   *)
(* keywords it looks for, in any case of letters.                          *)

StrategyKeywords == << "Variance", "difficulty", "FAILED", "100%" >>

StrategyEasyPhrases ==
    { << >>, << "Easy" >>, << "Too", "easy" >>, << "too", "much", "easy" >> }

RECURSIVE StrategyWords(_, _)
StrategyWords(chosen, i) ==
    IF i > Len(StrategyKeywords) THEN << >>
    ELSE (IF chosen[i] THEN << "the", StrategyKeywords[i] >> ELSE << >>)
         \o StrategyWords(chosen, i + 1)

StrategyFeedbacks ==
    { << "Focus" >> \o StrategyWords(chosen, 1) \o << "on" >> \o phrase :
        chosen \in [1..Len(StrategyKeywords) -> BOOLEAN],
        phrase \in StrategyEasyPhrases }

StrategyInit ==
    /\ pc = "strategy"
    /\ instruction = Str(<< <<"ch", 12>> >>)
    /\ frame = "genesis_retry"
    /\ lists = << >>
    /\ dicts = << >>
    /\ agent_config = 0
    /\ qa_config = 0
    /\ challenge_questions = << >>
    /\ scores = << >>
    /\ structured_instruction = [ agent_type |-> "" ]
    /\ llm_instance = None
    /\ depth = 0
    /\ feedback \in StrategyFeedbacks
    /\ retry_count \in 0..MaxAttempt
    /\ adjustment_strategy = ""
    /\ adjusted_config = 0
    /\ responses = << >>
    /\ qa_result = NoResult
    /\ outcome = Running
    /\ returned = [ kind |-> "pending" ]
    /\ gateway = [ called |-> FALSE, faults |-> 0, run_faults |-> {} ]
    /\ audit = [ qa_runs |-> 0, adjustments |-> 0, strategies |-> << >>,
                 events |-> << >>, registrations |-> << >>,
                 evaluated |-> [ ref |-> 0 ],
                 all_correct |-> TRUE, competent |-> TRUE ]

\* the call _determine_adjustment_strategy(feedback, retry_count)
StrategyDetermined ==
    /\ pc = "strategy"
    /\ adjustment_strategy' =
          _determine_adjustment_strategy(feedback, retry_count)
    /\ pc' = "strategy_done"
    /\ UNCHANGED << instruction, lists, dicts, structured_instruction,
                    agent_config, llm_instance, frame, depth, feedback,
                    retry_count, adjusted_config, qa_config,
                    challenge_questions, responses, scores, qa_result,
                    outcome, returned, gateway, audit >>

StrategyStart == Init \/ StrategyInit

StrategyNext == Next \/ StrategyDetermined

StrategySpec == StrategyStart /\ [][StrategyNext]_vars

-----------------------------------------------------------------------------
(* One call of genesis_retry up to its QA re-run: it is given any retry    *)
(* count up to max_retries, a feedback with any of the keywords, and a     *)
(* configuration whose capabilities may already name continuous_learning.  *)

RetryCapabilityLists ==
    { << >>, << "statistics" >>, << "statistics", "continuous_learning" >> }

RetryInit ==
    /\ pc = "retry_entry"
    /\ instruction = Str(<< <<"ch", 12>> >>)
    /\ frame = "genesis_retry"
    /\ \E capabilities \in RetryCapabilityLists :
          /\ lists = << capabilities, << >> >>
          /\ dicts = << [GateConfig EXCEPT !.system_prompt =
                            InitialPrompt(GateConfig, capabilities, << >>)] >>
    /\ agent_config = 1
    /\ qa_config = 1
    /\ challenge_questions = << >>
    /\ scores = << >>
    /\ structured_instruction = [ agent_type |-> "" ]
    /\ llm_instance = None
    /\ depth = 1
    /\ feedback \in StrategyFeedbacks
    /\ retry_count \in 0..max_retries
    /\ adjustment_strategy = ""
    /\ adjusted_config = 0
    /\ responses = << >>
    /\ qa_result = NoResult
    /\ outcome = Running
    /\ returned = [ kind |-> "pending" ]
    /\ gateway = [ called |-> FALSE, faults |-> 0, run_faults |-> {} ]
    /\ audit = [ qa_runs |-> 0, adjustments |-> 0, strategies |-> << >>,
                 events |-> << >>, registrations |-> << >>,
                 evaluated |-> [ ref |-> 0 ],
                 all_correct |-> TRUE, competent |-> TRUE ]

RetryNext == RetryEntry \/ _apply_adjustments

RetrySpec == RetryInit /\ [][RetryNext]_vars

-----------------------------------------------------------------------------
(* One QA run on its own: quality_assurance_test is given a configuration  *)
(* with or without capabilities, and the Gateway answers the challenge     *)
(* generation with any payload, well-formed or not.                        *)

RunCapabilityLists == { << >>, << "statistics" >> }

RunInit ==
    /\ pc = "qa_generate"
    /\ instruction = Str(<< <<"ch", 12>> >>)
    /\ frame = "genesis"
    /\ \E capabilities \in RunCapabilityLists :
          lists = << capabilities, << >> >>
    /\ dicts = << GateConfig >>
    /\ agent_config = 1
    /\ qa_config = 1
    /\ challenge_questions = << >>
    /\ scores = << >>
    /\ Idle

\* generate_challenge_questions, whatever the Gateway returns
RunGenerate == Generated(QuestionPayloads)

RunNext ==
    \/ RunGenerate
    \/ simulate_agent_response
    \/ evaluate_responses
    \/ quality_assurance_test

RunSpec == RunInit /\ [][RunNext]_vars

-----------------------------------------------------------------------------
(* Properties.  The outcome of genesis, as the properties refer to it. *)

Exited == pc \in { "genesis_exit", "done" }
Succeeded == outcome.kind = "return" /\ outcome.value.success
ExhaustedOutcome == outcome.kind = "return" /\ ~outcome.value.success
VerdictReached == pc \in { "genesis_decide", "retry_decide" }

\* the sum of the scores (tenths) of a list of results
Total(ind) ==
    LET S[i \in 0..Len(ind)] == IF i = 0 THEN 0 ELSE S[i - 1] + ind[i].score
    IN S[Len(ind)]

\* the number of results judged correct
Correct(ind) == Cardinality({ i \in 1..Len(ind) : ind[i].correct })

ScenarioB(ind) ==
    /\ Len(ind) = 5
    /\ [i \in 1..5 |-> ind[i].correct] = << TRUE, FALSE, TRUE, FALSE, TRUE >>
    /\ [i \in 1..5 |-> ind[i].score] = << 9, 3, 8, 4, 9 >>

(* C1: for every list of evaluation results of a QA run,                   *)
(* quality_assurance_test reports passed = true exactly when the mean of   *)
(* the scores is >= 0.6 and the variance p*(1-p) of the correct flags is   *)
(* within [0.15, 0.35], bounds included; the results of Scenario B         *)
(* (variance 0.24, average 0.66) pass.  Scores are tenths, so with n       *)
(* results of which k are correct: total >= 6n, 15n^2 <= 100k(n-k) <= 35n^2. *)
C1_PassedExactly ==
    VerdictReached =>
        LET ind == qa_result.scores.individual
            n == Len(ind)
            k == Correct(ind)
        IN /\ qa_result.passed <=>
                 /\ Total(ind) >= 6 * n
                 /\ 100 * k * (n - k) >= 15 * n * n
                 /\ 100 * k * (n - k) <= 35 * n * n
           /\ ScenarioB(ind) =>
                 /\ qa_result.passed
                 /\ qa_result.scores.variance = Frac(6, 25)
                 /\ qa_result.scores.average = Frac(33, 50)

C1_ScenarioBPassed ==
    /\ VerdictReached
    /\ ScenarioB(qa_result.scores.individual)
    /\ qa_result.passed

(* C2: one creation request performs at most 3 adjustments and at most 3   *)
(* QA re-runs after the initial run, the retry counter never exceeds 3,    *)
(* and when the initial run and all 3 re-runs fail the result returned     *)
(* has success = false and retry_count = 3.                                *)
C2_RetriesBounded ==
    /\ audit.adjustments <= 3
    /\ audit.qa_runs <= 1 + 3
    /\ audit.qa_runs <= 1 + audit.adjustments
    /\ retry_count <= 3
    /\ (Exited /\ audit.qa_runs = 4 /\ audit.evaluated.ref # 0
          /\ ~audit.evaluated.passed)
       => (ExhaustedOutcome /\ outcome.value.retry_count = 3)
    /\ ExhaustedOutcome =>
          /\ outcome.value.retry_count = 3
          /\ audit.qa_runs = 4
          /\ audit.adjustments = 3

C2_AllRunsFailed ==
    /\ pc = "done"
    /\ audit.qa_runs = 4
    /\ returned.kind = "value"
    /\ ~returned.value.success
    /\ returned.value.retry_count = 3

(* C3: the registrar create_agent_a2a is called at most once per request,  *)
(* only directly after a QA run with passed = true and with exactly the    *)
(* configuration this run evaluated (the unadjusted one when the initial   *)
(* run passes, the latest adjusted one when a retry passes); never after   *)
(* a failed verdict or on exhaustion.                                      *)
C3_RegisteredOnceAfterPass ==
    /\ [](/\ Len(audit.registrations) <= 1
          /\ audit.registrations # << >> =>
                /\ audit.evaluated.ref # 0
                /\ audit.evaluated.passed
                /\ audit.registrations[1] = audit.evaluated.object
                /\ audit.registrations[1] =
                       Snapshot(audit.registrations[1].ref)
                /\ audit.registrations[1].ref =
                       IF audit.adjustments = 0 THEN 1 ELSE Len(dicts)
                /\ audit.adjustments = 0 =>
                       audit.registrations[1].ref = agent_config
                /\ audit.adjustments > 0 =>
                       audit.registrations[1].ref = adjusted_config
          /\ (audit.evaluated.ref # 0 /\ ~audit.evaluated.passed) =>
                audit.registrations = << >>
          /\ ExhaustedOutcome => audit.registrations = << >>)
    /\ [][audit.registrations' # audit.registrations =>
             /\ VerdictReached
             /\ qa_result.passed
             /\ audit.evaluated.ref = qa_config
             /\ audit.registrations = << >>]_vars

C3_RegisteredAfterRetry ==
    /\ Len(audit.registrations) = 1
    /\ audit.adjustments = 2
    /\ audit.registrations[1].ref = adjusted_config
    /\ audit.registrations[1].config.system_prompt
          # ConfigOf(1).system_prompt

(* C4: when the verdict is still failing once the retry counter equals     *)
(* max_retries, genesis_retry returns a structured failure whose feedback  *)
(* is the feedback of the most recent failed QA run (not of an earlier     *)
(* one) and whose suggestion is not empty; afterwards no adjustment, QA    *)
(* run or registration happens.                                            *)
C4_ExhaustedCarriesLastFeedback ==
    /\ [](ExhaustedOutcome =>
             /\ audit.evaluated.ref # 0
             /\ ~audit.evaluated.passed
             /\ outcome.value.feedback = audit.evaluated.feedback
             /\ outcome.value.suggestion # ""
             /\ Exited)
    /\ [][(pc = "retry_entry" /\ retry_count = 3) =>
             (outcome'.kind = "return" /\ ~outcome'.value.success)]_vars
    /\ [][ExhaustedOutcome =>
             UNCHANGED << audit, dicts, lists, gateway, outcome >>]_vars

\* exhaustion after runs whose feedback differs: the last one is reported
C4_ExhaustedAfterDifferentFeedback ==
    /\ pc = "done"
    /\ ExhaustedOutcome
    /\ outcome.value.feedback = audit.evaluated.feedback
    /\ outcome.value.feedback # AllCorrectFeedback
    /\ audit.all_correct = FALSE
    /\ audit.strategies[3] = "increase_complexity"

(* C5: when the QA run of a retry passes, genesis_retry returns success =  *)
(* true with the agent_id, agent_type and capabilities of the adjusted     *)
(* configuration that passed and with retry_count the 1-based index (1, 2  *)
(* or 3) of that retry; no later adjustment is applied to it.              *)
C5_RetrySuccessReportsAdjusted ==
    /\ []((Succeeded /\ audit.adjustments > 0) =>
             LET v == outcome.value
                 e == audit.evaluated
             IN /\ e.passed
                /\ e.ref = adjusted_config
                /\ e.object = Snapshot(adjusted_config)
                /\ v.agent_id = e.object.config.agent_id
                /\ v.agent_type = e.object.config.agent_type
                /\ v.capabilities = e.object.config.capabilities
                /\ ListOf(v.capabilities) = e.object.capabilities
                /\ v.retry_count \in 1..3
                /\ v.retry_count = audit.adjustments
                /\ v.retry_count = audit.qa_runs - 1)
    /\ [][Succeeded => UNCHANGED << audit, dicts, lists, outcome >>]_vars

C5_PassedAtSecondRetry ==
    /\ pc = "done"
    /\ returned.kind = "value"
    /\ returned.value.success
    /\ audit.adjustments = 2
    /\ returned.value.retry_count = 2
    /\ returned.value.capabilities = ConfigOf(adjusted_config).capabilities

(* C6, as claimed: an error of the Gateway during challenge generation,    *)
(* response simulation or response evaluation aborts the QA run at once    *)
(* and leaves genesis as a fault; no verdict is computed from such a run.  *)
C6_GatewayErrorAborts ==
    /\ gateway.run_faults # {} => outcome.kind = "raise"
    /\ audit.evaluated.ref # 0 => audit.evaluated.faults = {}

(* C6, amended: an error of the Gateway during challenge generation,       *)
(* response simulation or response evaluation is caught inside that step   *)
(* and replaced by the step's fallback (the three fixed questions, the     *)
(* text "Error generating response: ...", a substring-match judgement);    *)
(* the run continues, nothing is surfaced to the caller as a fault, and    *)
(* the run ends in an ordinary verdict that drives registration or the     *)
(* retry controller.                                                       *)
C6_GatewayErrorAbsorbed ==
    /\ "generate" \in gateway.run_faults =>
          /\ Len(challenge_questions) = 3
          /\ \A i \in 1..3 : challenge_questions[i].source = "Fallback"
    /\ "simulate" \in gateway.run_faults =>
          \E i \in 1..Len(responses) :
             responses[i] = << "Error", "generating", "response", ":",
                               "exception" >>
    /\ "evaluate" \in gateway.run_faults =>
          \E i \in 1..Len(scores) :
             /\ scores[i].correct =
                   Contains(Lower(responses[i]),
                            Lower(challenge_questions[i].answer))
             /\ scores[i].score = IF scores[i].correct THEN 10 ELSE 0
    /\ gateway.run_faults # {} =>
          /\ outcome = Running
          /\ pc \in { "qa_simulate", "qa_evaluate", "qa_gate" }
    /\ outcome.kind = "raise" => outcome.error # "GatewayFault"
    /\ (audit.evaluated.ref # 0 /\ audit.evaluated.faults # {}) =>
          /\ audit.evaluated.passed \in BOOLEAN
          /\ outcome.kind = "raise" =>
                (audit.evaluated.passed /\ outcome.error = "RegistrationFault")
          /\ pc \in { "retry_entry", "retry_adjust" } =>
                (~audit.evaluated.passed
                   /\ feedback = audit.evaluated.feedback)
          /\ (Exited /\ outcome.kind = "return") =>
                outcome.value.success = audit.evaluated.passed

\* a run with a failed Gateway call has failed and a retry is adjusted to it
C6_FaultedRunDrivesRetry ==
    /\ pc = "retry_adjust"
    /\ audit.evaluated.ref # 0
    /\ audit.evaluated.faults # {}
    /\ ~audit.evaluated.passed
    /\ outcome = Running

(* C7: for every instruction that fails input validation (empty, fewer     *)
(* than 10 characters after trimming, or too long) genesis raises          *)
(* ValidationError before any Gateway call, configuration, QA run or       *)
(* registration; an instruction of 9 characters after trimming is          *)
(* rejected as too short.                                                  *)
C7_InvalidRejectedFirst ==
    LET length == RunsLen(instruction.runs)
        trimmed == RunsLen(Strip(instruction.runs))
        invalid == \/ instruction.none
                   \/ length = 0
                   \/ trimmed < 10
                   \/ length > 5000
    IN invalid =>
          /\ pc \in { "genesis", "genesis_exit", "done" }
          /\ gateway = [ called |-> FALSE, faults |-> 0, run_faults |-> {} ]
          /\ dicts = << >> /\ lists = << >> /\ agent_config = 0
          /\ audit.qa_runs = 0
          /\ audit.adjustments = 0
          /\ audit.registrations = << >>
          /\ pc # "genesis" =>
                /\ outcome.kind = "raise"
                /\ outcome.error = "ValidationError"
                /\ (~instruction.none /\ trimmed = 9) =>
                      outcome.message = "too_short"

C7_NineCharactersRejected ==
    /\ pc = "genesis_exit"
    /\ ~instruction.none
    /\ RunsLen(Strip(instruction.runs)) = 9
    /\ RunsLen(instruction.runs) > 10
    /\ outcome = Raised("ValidationError", "too_short")
    /\ ~gateway.called

Accepted == pc = "interpret" /\ outcome = Running
Rejected == pc \in { "genesis_exit", "done" }
               /\ outcome.kind = "raise" /\ outcome.error = "ValidationError"

(* C8, as claimed: an instruction is accepted exactly when, after          *)
(* trimming, it has between 1 and 5000 characters and it contains at       *)
(* least 10 characters that are not whitespace; every other instruction    *)
(* is rejected with ValidationError.                                       *)
C8_TrimmedLimitNonWhitespaceMinimum ==
    pc # "genesis" =>
        LET trimmed == RunsLen(Strip(instruction.runs))
            acceptable == /\ ~instruction.none
                          /\ trimmed >= 1
                          /\ trimmed <= 5000
                          /\ NonWhitespace(instruction.runs) >= 10
        IN /\ Accepted <=> acceptable
           /\ Rejected <=> ~acceptable

(* C8, amended: an instruction is accepted exactly when it has at least    *)
(* 10 characters after trimming surrounding whitespace and at most 5000    *)
(* characters before trimming; every other instruction is rejected with    *)
(* ValidationError (so leading and trailing whitespace counts toward the   *)
(* limit of 5000 and inner whitespace counts toward the minimum of 10).    *)
C8_TrimmedMinimumRawLimit ==
    pc # "genesis" =>
        LET trimmed == RunsLen(Strip(instruction.runs))
            acceptable == /\ ~instruction.none
                          /\ trimmed >= 10
                          /\ RunsLen(instruction.runs) <= 5000
        IN /\ Accepted <=> acceptable
           /\ Rejected <=> ~acceptable

\* accepted although fewer than 10 of its characters are not whitespace
C8_InnerWhitespaceCounted ==
    /\ Accepted
    /\ NonWhitespace(instruction.runs) < 10
    /\ RunsLen(Strip(instruction.runs)) < RunsLen(instruction.runs)

AllJudged(ind, flag) == \A i \in 1..Len(ind) : ind[i].correct = flag

(* C9: a QA run in which every question is judged correct fails the gate   *)
(* whatever the scores are (pass rate 1.0, variance 0.0 < 0.15), even      *)
(* with every score 1.0; a run in which every question is judged           *)
(* incorrect fails as well.                                                *)
C9_UniformRunsFail ==
    VerdictReached =>
        LET ind == qa_result.scores.individual
        IN (AllJudged(ind, TRUE) \/ AllJudged(ind, FALSE)) =>
              /\ ~qa_result.passed
              /\ qa_result.scores.variance.num = 0

C9_PerfectRunFailed ==
    /\ VerdictReached
    /\ Len(qa_result.scores.individual) = 5
    /\ \A i \in 1..5 : /\ qa_result.scores.individual[i].correct
                       /\ qa_result.scores.individual[i].score = 10
    /\ ~qa_result.passed
    /\ qa_result.scores.average = Frac(50, 50)

ThirdStrategyChosen ==
    /\ audit.qa_runs >= 3
    /\ Len(audit.strategies) = 3
    /\ audit.evaluated.ref # 0
    /\ ~audit.evaluated.passed

ObjectsKept ==
    /\ Len(dicts') >= Len(dicts)
    /\ Len(lists') >= Len(lists)
    /\ \A i \in 1..Len(dicts) : dicts'[i] = dicts[i]
    /\ \A i \in 1..Len(lists) : lists'[i] = lists[i]

(* C11: every adjustment returns a new configuration that shares no        *)
(* mutable state with its input: when _apply_adjustments returns, the      *)
(* input configuration, its capabilities and constraints lists and its     *)
(* prompt are unchanged, and a later adjustment never changes a            *)
(* configuration produced or submitted to QA earlier.                      *)
C11_AdjustmentIsIndependentCopy ==
    /\ [][audit'.adjustments # audit.adjustments =>
             /\ ObjectsKept
             /\ Len(dicts') = Len(dicts) + 1
             /\ adjusted_config' = Len(dicts')
             /\ agent_config' = agent_config
             /\ dicts'[adjusted_config'].capabilities > Len(lists)
             /\ dicts'[adjusted_config'].constraints > Len(lists)
             /\ dicts'[adjusted_config'].capabilities
                   # dicts'[adjusted_config'].constraints]_vars
    /\ [][audit.qa_runs >= 1 => ObjectsKept]_vars
    /\ [](audit.evaluated.ref # 0 =>
             audit.evaluated.object = Snapshot(audit.evaluated.ref))

\* two adjustments made; the second one appended a constraint to its own
\* list and the lists of the two earlier configurations are as they were
C11_ConstraintAddedToCopyOnly ==
    /\ audit.adjustments = 2
    /\ Len(dicts) = 3
    /\ dicts[3].constraints # dicts[2].constraints
    /\ dicts[2].constraints # dicts[1].constraints
    /\ ListOf(dicts[3].constraints)
          = Append(ListOf(dicts[2].constraints),
                   "prioritize_accuracy_over_speed")
    /\ ListOf(dicts[2].constraints) = ListOf(dicts[1].constraints)
    /\ ListOf(dicts[1].constraints) = << "must_use_python" >>

\* the fields of a configuration that no adjustment may touch
FixedFields ==
    { "agent_id", "agent_type", "selected_model", "model_temperature",
      "model_context_window" }

(* C12: across every sequence of adjustments of one request only           *)
(* system_prompt, capabilities and constraints can differ between the      *)
(* initial and an adjusted configuration: agent_id, agent_type,            *)
(* selected_model, model_temperature and model_context_window are the      *)
(* same in all of them, whatever the strategies were.                      *)
C12_OnlyPromptAndListsAdjusted ==
    \A i \in 2..Len(dicts) :
        /\ DOMAIN dicts[i] = DOMAIN dicts[1]
        /\ FixedFields \subseteq DOMAIN dicts[i]
        /\ \A f \in DOMAIN dicts[i] :
              dicts[i][f] # dicts[1][f] =>
                 f \in { "system_prompt", "capabilities", "constraints" }

\* three adjustments, the last one rewriting the prompt from scratch
C12_ThreeStrategiesApplied ==
    /\ Len(dicts) = 4
    /\ audit.strategies[2] = "refine_constraints"
    /\ audit.strategies[3] = "simplify_requirements"
    /\ dicts[4].system_prompt # dicts[1].system_prompt
    /\ ListOf(dicts[4].constraints) # ListOf(dicts[1].constraints)
    /\ \A f \in FixedFields : dicts[4][f] = dicts[1][f]

\* convert_query_via_mdp has returned a structured instruction
InterpreterReturned == "has_capabilities" \in DOMAIN structured_instruction

(* C13: after the interpreter has returned, no later stage modifies the    *)
(* structured instruction: the initial configuration's capabilities and    *)
(* constraints are the structured instruction's own list objects, and      *)
(* still no adjustment (capability expansion and constraint refinement     *)
(* included) changes the structured instruction's lists.                   *)
C13_StructuredInstructionImmutable ==
    /\ [][InterpreterReturned =>
             /\ structured_instruction' = structured_instruction
             /\ structured_instruction.has_capabilities =>
                   lists'[structured_instruction.capabilities]
                      = lists[structured_instruction.capabilities]
             /\ structured_instruction.has_constraints =>
                   lists'[structured_instruction.constraints]
                      = lists[structured_instruction.constraints]]_vars
    /\ []((InterpreterReturned /\ Len(dicts) >= 1) =>
             /\ structured_instruction.has_capabilities =>
                   dicts[1].capabilities = structured_instruction.capabilities
             /\ structured_instruction.has_constraints =>
                   dicts[1].constraints = structured_instruction.constraints)

\* a capability was added by the second adjustment and the structured
\* instruction's lists are what was interpreted
C13_ListsExpandedInstructionIntact ==
    /\ Len(dicts) = 4
    /\ audit.strategies[2] = "adjust_capabilities"
    /\ ListOf(dicts[3].capabilities)
          = Append(ListOf(structured_instruction.capabilities),
                   "continuous_learning")
    /\ dicts[1].capabilities = structured_instruction.capabilities
    /\ ListOf(structured_instruction.capabilities)
          = << "statistics", "python", "reporting", "plotting" >>
    /\ ListOf(structured_instruction.constraints) = << "must_use_python" >>

\* the interpretation response had no "capabilities" key
CapabilitiesMissing ==
    InterpreterReturned /\ ~structured_instruction.has_capabilities

(* C14: when the interpretation response of the Gateway lacks the          *)
(* capabilities key, an empty capability list is substituted and the       *)
(* request is not aborted: it goes on through configuration building,      *)
(* model selection and QA.                                                 *)
C14_MissingCapabilitiesTolerated ==
    CapabilitiesMissing =>
        /\ Len(dicts) >= 1 => ListOf(dicts[1].capabilities) = << >>
        /\ pc # "build" => Len(dicts) >= 1
        /\ Exited => audit.qa_runs >= 1

\* what happens instead: the configuration is built with an empty list and
\* select_llm raises KeyError before its Gateway call; no QA run is made
C14_MissingCapabilitiesAbort ==
    /\ CapabilitiesMissing
    /\ pc = "done"
    /\ Len(dicts) = 1
    /\ ListOf(dicts[1].capabilities) = << >>
    /\ outcome = Raised("KeyError", "capabilities")
    /\ llm_instance = None
    /\ audit.qa_runs = 0
    /\ returned.kind = "none"

(* C15: each adapter answers a failure of its Gateway call with a fixed    *)
(* fallback value and the pipeline proceeds to the next stage; a Gateway   *)
(* failure in the interpreter or in the model selector does not abort      *)
(* the request.  (The interpreter's failure shows as ValueError, the       *)
(* selector's as the value None and then AttributeError in genesis.)       *)
C15_EveryAdapterFallsBack ==
    /\ gateway.run_faults # {} => outcome = Running
    /\ pc = "attach" => ~llm_instance.is_none
    /\ outcome.kind = "raise" =>
          outcome.error \notin { "ValueError", "AttributeError" }

\* what happens instead when the selection call fails: select_llm returns
\* None and genesis stops at llm_instance.model_name, before any QA run
C15_SelectorFailureAborts ==
    /\ pc = "done"
    /\ InterpreterReturned
    /\ structured_instruction.has_capabilities
    /\ llm_instance = None
    /\ outcome = Raised("AttributeError", "model_name")
    /\ "selected_model" \notin DOMAIN dicts[1]
    /\ audit.qa_runs = 0
    /\ returned.kind = "none"

C17_TerminatesWithinFourActivations ==
    /\ [](/\ depth <= 4
          /\ depth = IF frame = "genesis_retry" THEN retry_count + 1 ELSE 0)
    /\ (pc = "interpret") ~>
          (pc = "done" /\ outcome.kind \in { "return", "raise" })

\* the deepest recursion: the fourth activation returns the exhausted result
C17_FourthActivationReturned ==
    /\ pc = "done"
    /\ depth = 4
    /\ retry_count = 3
    /\ ExhaustedOutcome

RegistrationFailed == outcome = Raised("RegistrationFault", "register")

(* C18: when the registrar fails after a passing verdict, on the initial   *)
(* run or on a retry, genesis raises the error and nothing is retried: no  *)
(* adjustment, QA run or second registration follows and neither a         *)
(* success nor an exhausted result is returned.                            *)
C18_RegistrationFaultSurfaced ==
    /\ [](audit.registrations # << >> =>
             /\ Exited
             /\ Succeeded \/ RegistrationFailed)
    /\ [](RegistrationFailed =>
             /\ Exited
             /\ Len(audit.registrations) = 1
             /\ audit.evaluated.ref # 0
             /\ audit.evaluated.passed)
    /\ [][RegistrationFailed =>
             UNCHANGED << audit, dicts, lists, gateway, outcome,
                          retry_count, depth >>]_vars

\* the registrar failed on the configuration of the second retry
C18_RegistrationFailedOnRetry ==
    /\ pc = "done"
    /\ RegistrationFailed
    /\ audit.adjustments = 2
    /\ audit.qa_runs = 3
    /\ Len(audit.registrations) = 1
    /\ audit.registrations[1].ref = adjusted_config

InQARun == pc \in { "qa_generate", "qa_simulate", "qa_evaluate", "qa_gate" }

(* C19: every QA run, the initial one and each retry, generates its own    *)
(* challenge questions before it simulates a response and evaluates the    *)
(* configuration of its attempt (the adjusted one on a retry); no          *)
(* questions and no results of an earlier run are used in a later one.     *)
C19_EachRunGeneratesAndEvaluatesItsOwn ==
    /\ [](pc = "qa_generate" =>
             /\ challenge_questions = << >>
             /\ responses = << >>
             /\ scores = << >>)
    /\ [](pc \in { "qa_simulate", "qa_evaluate", "qa_gate" } =>
             /\ Len(challenge_questions) \in { 3, 5 }
             /\ Len(scores) <= Len(responses)
             /\ Len(responses) <= Len(challenge_questions)
             /\ pc = "qa_simulate" => scores = << >>
             /\ \A i \in 1..Len(scores) :
                   /\ scores[i].question = challenge_questions[i].q
                   /\ scores[i].difficulty = challenge_questions[i].difficulty)
    /\ [](InQARun =>
             /\ qa_config = Len(dicts)
             /\ qa_config = IF audit.adjustments = 0 THEN agent_config
                            ELSE adjusted_config
             /\ audit.adjustments = retry_count + (IF frame = "genesis_retry"
                                                   THEN 1 ELSE 0)
             /\ pc # "qa_generate" =>
                   audit.qa_runs = audit.adjustments + 1)
    /\ [][pc = "qa_generate" =>
             /\ gateway'.called
             /\ audit'.qa_runs = audit.qa_runs + 1
             /\ challenge_questions' # << >>
             /\ pc' = "qa_simulate"]_vars
    /\ [](VerdictReached =>
             /\ audit.evaluated.ref = qa_config
             /\ challenge_questions = << >>
             /\ scores = << >>)

\* the third run evaluates answers to its own questions for the
\* configuration of the second adjustment
C19_ThirdRunOnSecondAdjustment ==
    /\ pc = "qa_evaluate"
    /\ audit.qa_runs = 3
    /\ audit.adjustments = 2
    /\ qa_config = adjusted_config
    /\ qa_config = 3
    /\ Len(challenge_questions) = 5
    /\ Len(scores) = 2


Less(a, b) ==
    IF b = DZero THEN FALSE
    ELSE IF a = DZero THEN TRUE
    ELSE \/ a.e > b.e
         \/ /\ a.e = b.e
            /\ \E i \in 1..Precision :
                  /\ a.m[i] < b.m[i]
                  /\ \A j \in 1..(i - 1) : a.m[j] = b.m[j]

\* the next double above a > 0
NextUp(a) ==
    LET inc == Increment(a.m)
    IN IF inc.carry = 1
       THEN [ m |-> << 1 >> \o Zeros(Precision - 1), e |-> a.e - 1 ]
       ELSE [ m |-> SubSeq(inc.bits, 1, Precision), e |-> a.e ]

\* the double that many doubles above a > 0
RECURSIVE Above(_, _)
Above(a, steps) == IF steps = 0 THEN a ELSE Above(NextUp(a), steps - 1)

\* the correct flags with every flag negated: n - k true of n
Mirrored(binary_outcomes) ==
    [i \in 1..Len(binary_outcomes) |-> ~binary_outcomes[i]]

Quarter == Divide(1, 4)

(* C21, as stated: for every non-empty list of n outcomes with k true,     *)
(* calculate_variance returns the same value as for n - k true, returns 0  *)
(* when k = 0 or k = n, never more than 0.25, and 0.25 exactly when        *)
(* k = n/2.                                                                *)
C21_VarianceSymmetric ==
    pc = "variance_done" =>
        LET outcomes == Correctness(scores)
            n == Len(outcomes)
            k == CountTrue(outcomes)
            variance == returned.value
        IN /\ variance = calculate_variance_double(Mirrored(outcomes))
           /\ (k = 0 \/ k = n) => variance = DZero
           /\ ~Less(Quarter, variance)
           /\ variance = Quarter <=> 2 * k = n

\* a and b are at most d doubles apart
Within(a, b, d) ==
    IF a = DZero \/ b = DZero THEN a = b
    ELSE \E i \in 0..d : Above(a, i) = b \/ Above(b, i) = a

(* C21, amended: the values for k and for n - k true are equal in exact    *)
(* arithmetic, k(n-k)/n^2, and as the doubles calculate_variance returns   *)
(* they are at most n doubles apart; the value is 0 exactly when k = 0 or  *)
(* k = n, never more than 0.25, and 0.25 exactly when k = n/2.             *)
C21_VarianceSymmetricUpToRounding ==
    pc = "variance_done" =>
        LET outcomes == Correctness(scores)
            n == Len(outcomes)
            k == CountTrue(outcomes)
            variance == returned.value
        IN /\ Within(variance,
                     calculate_variance_double(Mirrored(outcomes)), n)
           /\ calculate_variance(outcomes)
                 = calculate_variance(Mirrored(outcomes))
           /\ variance = DZero <=> (k = 0 \/ k = n)
           /\ ~Less(Quarter, variance)
           /\ variance = Quarter <=> 2 * k = n

\* one correct answer of five gives 0.16000000000000003, four correct
\* answers give 0.15999999999999998, two doubles below
C21_OneOfFiveAboveFourOfFive ==
    /\ pc = "variance_done"
    /\ Len(scores) = 5
    /\ CountTrue(Correctness(scores)) = 1
    /\ returned.value
          = Above(calculate_variance_double(Mirrored(Correctness(scores))), 2)


\* the prompt the claim describes: the agent type and the capabilities
\* given, in the fixed sentences
SimplifiedPrompt(agent_type, named) ==
    << "You are a ", agent_type, ". ", "Your primary capabilities are: " >>
    \o (CASE Len(named) = 0 -> << >>
          [] Len(named) = 1 -> << named[1] >>
          [] Len(named) = 2 -> << named[1], ", ", named[2] >>
          [] OTHER -> << named[1], ", ", named[2], ", ", named[3] >>)
    \o << ". ", "Provide clear, accurate, and concise responses." >>

(* C22: after simplify_requirements the prompt consists of the agent type  *)
(* and the first three capabilities (all of them when there are fewer),    *)
(* whatever the prompt was before; agent type and capabilities are as they *)
(* were, and applying the strategy to the result gives the same prompt.    *)
C22_SimplifiedPromptFromTypeAndThree ==
    pc = "qa_generate" =>
        LET given == ConfigOf(1)
            cfg == ConfigOf(adjusted_config)
            capabilities == ListOf(cfg.capabilities)
        IN /\ cfg.agent_type = given.agent_type
           /\ capabilities = ListOf(given.capabilities)
           /\ cfg.system_prompt =
                 SimplifiedPrompt(given.agent_type, ListOf(given.capabilities))
           /\ \A i \in 4..Len(capabilities) :
                 ~Member(capabilities[i], cfg.system_prompt)
           /\ audit.adjustments >= 2 =>
                 cfg.system_prompt = ConfigOf(agent_config).system_prompt

\* a configuration with five capabilities and a prompt amended by an earlier
\* adjustment has been simplified twice; nothing of the earlier prompt is left
C22_SimplifiedTwice ==
    /\ pc = "qa_generate"
    /\ audit.adjustments = 2
    /\ Len(ListOf(ConfigOf(adjusted_config).capabilities)) = 5
    /\ Member("Your capabilities include: ", ConfigOf(1).system_prompt)
    /\ Len(ConfigOf(1).system_prompt) > 10
    /\ ~Member("Your capabilities include: ",
               ConfigOf(adjusted_config).system_prompt)
    /\ ConfigOf(adjusted_config).system_prompt = ConfigOf(2).system_prompt


(* C23: when the validation of the instruction fails, create_agent raises  *)
(* ValidationError to its caller; the failure does not become a returned   *)
(* value.                                                                  *)
C23_ValidationErrorRaisedToCaller ==
    (pc = "done" /\ Rejected) =>
        /\ returned.kind = "raise"
        /\ returned.error = "ValidationError"

\* the instruction was rejected and create_agent has returned None
C23_ValidationFailureReturnsNone ==
    /\ pc = "done"
    /\ outcome = Raised("ValidationError", "too_short")
    /\ ~gateway.called
    /\ returned = [ kind |-> "none" ]


\* the classification of a failed run, read off its feedback and its
\* average: failures on easy questions, on hard questions, and a failure
\* on the variance (the average being competent)
EasyFailures(fb) == Contains(fb, << "easy", "question(s)" >>)
HardFailures(fb) == Contains(fb, << "hard", "question(s)" >>)
FirstStrategyChosen == pc = "retry_adjust" /\ retry_count = 0

(* C24: at retry attempt 0, when the failed run was not a variance failure *)
(* and its incorrect answers are on easy questions (difficulty < 0.5) and  *)
(* not on hard ones, the strategy is strengthen_fundamentals; when it was  *)
(* not a variance failure and no easy question was answered incorrectly,   *)
(* the strategy is enhance_prompt_specificity.                             *)
C24_FundamentalsOrSpecificityAtAttemptZero ==
    FirstStrategyChosen =>
        /\ (~audit.competent /\ EasyFailures(feedback)
                /\ ~HardFailures(feedback)) =>
              adjustment_strategy = "strengthen_fundamentals"
        /\ (~audit.competent /\ ~EasyFailures(feedback)) =>
              adjustment_strategy = "enhance_prompt_specificity"

\* a run below the competence threshold failed easy questions and no hard
\* one, and the strategy chosen at attempt 0 is adjust_prompt_for_difficulty
C24_EasyFailuresGetDifficultyPrompt ==
    /\ FirstStrategyChosen
    /\ ~audit.competent
    /\ EasyFailures(feedback)
    /\ ~HardFailures(feedback)
    /\ adjustment_strategy = "adjust_prompt_for_difficulty"


SecondStrategyChosen == pc = "retry_adjust" /\ retry_count = 1

\* the gate's classification of the run before: it failed with an average
\* of at least 0.6, on its variance that is
FailedOnVariance == ~audit.evaluated.passed /\ audit.evaluated.competent

(* C25: at retry attempt 1 the strategy is adjust_capabilities when the    *)
(* run before failed on its variance, and refine_constraints when it       *)
(* failed below the competence threshold.                                  *)
C25_ExpansionExactlyOnVarianceFailure ==
    SecondStrategyChosen =>
        adjustment_strategy = IF FailedOnVariance THEN "adjust_capabilities"
                              ELSE "refine_constraints"

\* the first re-run answered every question correctly and failed on its
\* variance of 0; the strategy chosen at attempt 1 is refine_constraints
C25_VarianceFailureGetsConstraints ==
    /\ SecondStrategyChosen
    /\ FailedOnVariance
    /\ feedback = AllCorrectFeedback
    /\ adjustment_strategy = "refine_constraints"


FinalStrategyChosen == pc = "retry_adjust" /\ retry_count = 2

\* the run before answered every question correctly
AnsweredAllCorrectly == audit.evaluated.feedback = AllCorrectFeedback

(* C26: at retry attempt 2 the strategy is increase_complexity when the    *)
(* run before answered every question correctly, and simplify_requirements *)
(* in every other case.                                                    *)
C26_EscalationExactlyOnAllCorrect ==
    FinalStrategyChosen =>
        adjustment_strategy = IF AnsweredAllCorrectly THEN "increase_complexity"
                              ELSE "simplify_requirements"

\* the second re-run failed the question "Reach 100% coverage"; the
\* strategy chosen at attempt 2 is increase_complexity
C26_FailedQuestionGetsEscalation ==
    /\ FinalStrategyChosen
    /\ ~AnsweredAllCorrectly
    /\ Contains(feedback, << "Reach", "100%", "coverage" >>)
    /\ adjustment_strategy = "increase_complexity"


\* the keywords _determine_adjustment_strategy looks for in a feedback
KeywordFlags(fb) ==
    [ variance   |-> Contains(Lower(fb), << "variance" >>),
      difficulty |-> Contains(Lower(fb), << "difficulty" >>),
      failed     |-> Contains(Lower(fb), << "failed" >>),
      easy       |-> Contains(Lower(fb), << "easy" >>),
      too_easy   |-> Contains(Lower(fb), << "too", "easy" >>),
      hundred    |-> Contains(Lower(fb), << "100%" >>) ]

StrategyTable(count, flags) ==
    CASE count = 0 ->
           (CASE flags.variance \/ flags.difficulty ->
                   "adjust_prompt_for_difficulty"
              [] ~(flags.variance \/ flags.difficulty)
                    /\ flags.failed /\ flags.easy ->
                   "strengthen_fundamentals"
              [] OTHER -> "enhance_prompt_specificity")
      [] count = 1 ->
           (CASE flags.variance -> "adjust_capabilities"
              [] OTHER -> "refine_constraints")
      [] count >= 2 ->
           (CASE flags.too_easy \/ flags.hundred -> "increase_complexity"
              [] OTHER -> "simplify_requirements")

\* the tags of the k-th attempt, k counted from 1
AttemptTags(k) ==
    CASE k = 1 -> { "adjust_prompt_for_difficulty", "strengthen_fundamentals",
                    "enhance_prompt_specificity" }
      [] k = 2 -> { "adjust_capabilities", "refine_constraints" }
      [] OTHER -> { "increase_complexity", "simplify_requirements" }

(* C27: the strategy _determine_adjustment_strategy returns for a retry    *)
(* count and a feedback is the entry of the table for the count and the    *)
(* keywords in the lower-cased feedback; the k-th adjustment of a request  *)
(* has a tag of the k-th attempt, and no tag is applied twice in a         *)
(* request.                                                                *)
C27_StrategyIsTableEntry ==
    /\ pc \in { "strategy_done", "retry_adjust" } =>
          adjustment_strategy =
              StrategyTable(retry_count, KeywordFlags(feedback))
    /\ \A k \in 1..Len(audit.strategies) :
          /\ audit.strategies[k] \in AttemptTags(k)
          /\ \A j \in 1..Len(audit.strategies) :
                j # k => audit.strategies[j] # audit.strategies[k]

\* a request at its third adjustment, the three tags one of each attempt
C27_ThreeTagsOfThreeAttempts ==
    /\ pc = "retry_adjust"
    /\ retry_count = 2
    /\ audit.strategies = << "adjust_prompt_for_difficulty",
                             "refine_constraints", "simplify_requirements" >>
    /\ adjustment_strategy =
          StrategyTable(2, KeywordFlags(feedback))


\* genesis_retry has adjusted the configuration and starts the QA re-run
AdjustmentPerformed == pc = "qa_generate" /\ audit.adjustments > 0

\* what a configuration holds, the identity of its lists left out
Contents(ref) ==
    [ config |-> [ConfigOf(ref) EXCEPT !.capabilities = 0, !.constraints = 0],
      capabilities |-> ListOf(ConfigOf(ref).capabilities),
      constraints |-> ListOf(ConfigOf(ref).constraints) ]

ConfigurationChanged == Contents(adjusted_config) # Contents(agent_config)

\* the three events logged last are RETRY_STRATEGY and ADJUSTMENT_APPLIED
\* with the strategy chosen, then RETRY_QA_START
StrategyThenAppliedThenRerun ==
    LET n == Len(audit.events)
    IN /\ n >= 3
       /\ audit.events[n - 2] = [ event |-> "RETRY_STRATEGY",
                                  attempt |-> retry_count + 1,
                                  strategy |-> adjustment_strategy ]
       /\ audit.events[n - 1] = [ event |-> "ADJUSTMENT_APPLIED",
                                  strategy |-> adjustment_strategy ]
       /\ audit.events[n].event = "RETRY_QA_START"

(* C28: when an adjustment has been performed, the log holds a             *)
(* RETRY_STRATEGY event with the chosen tag, after it an                   *)
(* ADJUSTMENT_APPLIED event with the same tag, and only after these the    *)
(* start of the QA re-run; and the ADJUSTMENT_APPLIED event is there only  *)
(* if the adjusted configuration differs from the one given.               *)
C28_LoggedInOrderAndOnlyOnChange ==
    AdjustmentPerformed =>
        /\ StrategyThenAppliedThenRerun
        /\ ConfigurationChanged

\* adjust_capabilities on a configuration that names continuous_learning
\* already: ADJUSTMENT_APPLIED is logged and nothing was changed
C28_AppliedLoggedWithoutChange ==
    /\ AdjustmentPerformed
    /\ adjustment_strategy = "adjust_capabilities"
    /\ StrategyThenAppliedThenRerun
    /\ ~ConfigurationChanged


\* genesis_retry has been called and has not yet adjusted
RetryCalled == pc \in { "retry_entry", "retry_adjust" }

(* C29: the feedback genesis_retry is given is the feedback of the QA run  *)
(* before, which failed, and it has the word "difficulty" in it; the first *)
(* strategy of a request is adjust_prompt_for_difficulty, and              *)
(* strengthen_fundamentals and enhance_prompt_specificity are never        *)
(* chosen.                                                                 *)
C29_FirstAdjustmentForDifficulty ==
    /\ RetryCalled =>
          /\ ~audit.evaluated.passed
          /\ feedback = audit.evaluated.feedback
          /\ Contains(Lower(feedback), << "difficulty" >>)
    /\ \A k \in 1..Len(audit.strategies) :
          /\ k = 1 => audit.strategies[k] = "adjust_prompt_for_difficulty"
          /\ audit.strategies[k] \notin { "strengthen_fundamentals",
                                          "enhance_prompt_specificity" }

\* the first run failed hard questions only: its feedback has neither
\* "variance" nor "easy" in it, and the strategy is the difficulty one
C29_HardFailuresGetDifficultyPrompt ==
    /\ FirstStrategyChosen
    /\ feedback = audit.evaluated.feedback
    /\ HardFailures(feedback)
    /\ ~Contains(Lower(feedback), << "easy" >>)
    /\ ~Contains(Lower(feedback), << "variance" >>)
    /\ audit.strategies = << "adjust_prompt_for_difficulty" >>


\* the literal 0.15 as a double
LowerVarianceBound == Divide(VarianceLowPct, 100)

\* the number of results judged correct
CorrectCount == CountTrue(Correctness(qa_result.scores.individual))

\* the double calculate_variance computes for n outcomes, k of them true
ComputedVariance ==
    [n \in 0..num_questions |->
        [k \in 0..n |->
            calculate_variance_double([i \in 1..n |-> i <= k])]]

(* C30: the variance of a QA run is at most 0.25 (as a fraction and as the *)
(* double the code computes), so it is never above the upper bound 0.35; a *)
(* failed run with an average of at least 0.6 has a variance below 0.15    *)
(* and its reason is never the "too inconsistent" one; a run of five       *)
(* questions passes exactly when its average is at least 0.6 and one to    *)
(* four answers are correct, a run of three exactly when its average is at *)
(* least 0.6 and one or two are correct.                                   *)
C30_GateIsAverageAndMixedAnswers ==
    VerdictReached =>
        LET variance == qa_result.scores.variance
            computed == ComputedVariance[Len(qa_result.scores.individual)]
                                        [CorrectCount]
            competent == GE(qa_result.scores.average, min_acceptable_score)
        IN /\ 4 * variance.num <= variance.den
           /\ ~Less(Quarter, computed)
           /\ Less(computed, LowerVarianceBound)
                 <=> LT(variance, optimal_variance_range[1])
           /\ GE(optimal_variance_range[2], variance)
           /\ (~qa_result.passed /\ competent) =>
                 LT(variance, optimal_variance_range[1])
           /\ qa_result.reason[3] #
                 "Performance too inconsistent - questions may be poorly calibrated."
           /\ Len(qa_result.scores.individual) = 5 =>
                 (qa_result.passed <=> (competent /\ CorrectCount \in 1..4))
           /\ Len(qa_result.scores.individual) = 3 =>
                 (qa_result.passed <=> (competent /\ CorrectCount \in 1..2))

\* a run of five questions with four correct answers passes: its variance
\* 0.16 is the one nearest to the lower bound
C30_FourOfFivePasses ==
    /\ VerdictReached
    /\ Len(qa_result.scores.individual) = 5
    /\ CorrectCount = 4
    /\ qa_result.scores.variance = Frac(4, 25)
    /\ qa_result.passed


\* a QA run has its questions and has not yet returned its verdict
QuestionsGenerated == pc \in { "qa_simulate", "qa_evaluate", "qa_gate" }

\* the challenge-generation call raised
GenerationRaised == "generate" \in gateway.run_faults

\* the call returned and what it returned made the try block raise
PayloadRejected == "parse" \in gateway.run_faults

\* one response and one result per question, in the order of the
\* questions, as far as the loops have come; no division by zero
OnePerQuestion ==
    /\ QuestionsGenerated =>
          /\ challenge_questions # << >>
          /\ Len(responses) <= Len(challenge_questions)
          /\ Len(scores) <= Len(responses)
          /\ \A i \in 1..Len(scores) :
                scores[i].question = challenge_questions[i].q
          /\ pc # "qa_simulate" =>
                Len(responses) = Len(challenge_questions)
          /\ pc = "qa_gate" => Len(scores) = Len(challenge_questions)
    /\ VerdictReached =>
          Len(qa_result.scores.individual) \in { 3, num_questions }
    /\ outcome # Raised("ZeroDivisionError", "division by zero")

(* C31, as stated: every QA run has a non-empty list of questions, one     *)
(* response and one result per question, and never divides by zero; the    *)
(* list has 5 questions when the challenge-generation call returned and    *)
(* the 3 fallback questions when it raised.                                *)
C31_FiveWhenReturnedThreeWhenRaised ==
    /\ OnePerQuestion
    /\ QuestionsGenerated =>
          Len(challenge_questions) =
              IF GenerationRaised THEN 3 ELSE num_questions

(* C31, amended: every QA run has a non-empty list of questions, one       *)
(* response and one result per question, and never divides by zero; the    *)
(* list has 5 questions when the challenge-generation call returned a      *)
(* payload the try block accepts, and it is the 3 fallback questions when  *)
(* the call raised or the payload made the try block raise.                *)
C31_FiveWhenAcceptedThreeOtherwise ==
    /\ OnePerQuestion
    /\ QuestionsGenerated =>
          IF GenerationRaised \/ PayloadRejected
          THEN challenge_questions =
                  FallbackQuestions(ConfigOf(qa_config).agent_type,
                      ListOf(ConfigOf(qa_config).capabilities), num_questions)
               /\ Len(challenge_questions) = 3
          ELSE Len(challenge_questions) = num_questions

\* the Gateway returned a payload that made the try block raise, and the
\* run has evaluated the three fallback questions
C31_RejectedPayloadThreeResults ==
    /\ pc = "qa_gate"
    /\ PayloadRejected
    /\ ~GenerationRaised
    /\ Len(challenge_questions) = 3
    /\ Len(responses) = 3
    /\ Len(scores) = 3


\* s is the beginning of t
IsPrefix(s, t) == Len(s) <= Len(t) /\ SubSeq(t, 1, Len(s)) = s

\* the prompt given to _apply_adjustments is kept at the beginning of the
\* prompt it returns
PromptKept ==
    IsPrefix(ConfigOf(agent_config).system_prompt,
             ConfigOf(adjusted_config).system_prompt)

(* C32: an adjustment by any strategy but simplify_requirements keeps the  *)
(* system_prompt it was given as a prefix of the system_prompt it returns; *)
(* simplify_requirements is applied as the third adjustment only.          *)
C32_PromptKeptUnlessSimplifiedAtThird ==
    AdjustmentPerformed =>
        /\ adjustment_strategy # "simplify_requirements" => PromptKept
        /\ adjustment_strategy = "simplify_requirements" => retry_count = 2

\* the third adjustment simplifies, and the prompt it was given is gone
C32_SimplifiedAtThirdDiscards ==
    /\ AdjustmentPerformed
    /\ adjustment_strategy = "simplify_requirements"
    /\ retry_count = 2
    /\ ~PromptKept


\* the capabilities and the constraints of the k-th configuration of the
\* request: the first is the one genesis built, the others are adjusted
CapabilitiesOf(k) == ListOf(dicts[k].capabilities)
ConstraintsOf(k) == ListOf(dicts[k].constraints)

CapabilityGained(k) ==
    /\ ~Member("continuous_learning", CapabilitiesOf(1))
    /\ CapabilitiesOf(k) = Append(CapabilitiesOf(1), "continuous_learning")

ConstraintGained(k) ==
    ConstraintsOf(k) = Append(ConstraintsOf(1), "prioritize_accuracy_over_speed")

(* C33: every configuration of a request has the capabilities of the first *)
(* one, or these followed by continuous_learning, which the first did not  *)
(* have; it has the constraints of the first one, or these followed by     *)
(* prioritize_accuracy_over_speed; and not both lists are longer; each     *)
(* adjustment keeps the elements it was given, in their order.             *)
C33_ListsGainAtMostOneElement ==
    /\ \A k \in 1..Len(dicts) :
          /\ CapabilitiesOf(k) = CapabilitiesOf(1) \/ CapabilityGained(k)
          /\ ConstraintsOf(k) = ConstraintsOf(1) \/ ConstraintGained(k)
          /\ ~(CapabilityGained(k) /\ ConstraintGained(k))
    /\ AdjustmentPerformed =>
          /\ IsPrefix(ListOf(ConfigOf(agent_config).capabilities),
                      ListOf(ConfigOf(adjusted_config).capabilities))
          /\ IsPrefix(ListOf(ConfigOf(agent_config).constraints),
                      ListOf(ConfigOf(adjusted_config).constraints))

\* after three adjustments the last configuration has gained
\* continuous_learning, and its constraints are those of the first
C33_CapabilityGainedConstraintsKept ==
    /\ AdjustmentPerformed
    /\ audit.adjustments = 3
    /\ Len(dicts) = 4
    /\ CapabilityGained(4)
    /\ ConstraintsOf(4) = ConstraintsOf(1)

====
